---- MODULE Spec2Model ----
(***************************************************************************)
(* A model of ddollar: the token rotation pool (src/src/tokens/pool.go),   *)
(* the hosts-file redirection manager (package hosts: Add, Remove,         *)
(* IsActive, Backup, Restore), the watchdog process and the start/shutdown *)
(* sequence of the proxy (startCommand).                                   *)
(*                                                                         *)
(* The specifications of the module:                                      *)
(*   SpecPool   request handlers calling Pool.GetToken concurrently        *)
(*   SpecHosts  one writer running Add/Remove/Restore/IsActive, one        *)
(*              file-system call per step                                  *)
(*   SpecCrash  the same writer, killed between two file-system calls      *)
(*   SpecLife   startCommand, its signal goroutine and the watchdog;       *)
(*   FairLife   SpecLife with the watchdog process taking its steps        *)
(*   SpecProxy  one request handler: GetToken, then 503 or the Director    *)
(*   SpecRoute  the same handler with the hosts file its transport         *)
(*              resolves against: requests sent to 127.0.0.1 come in again *)
(*   SpecCert   the CA, the leaf certificate and the trust store           *)
(***************************************************************************)
EXTENDS Integers, Sequences, FiniteSets, TLC

VARIABLES
    providers,   \* Pool.providers: domain -> ProviderPool or NoPool
    mu,          \* Pool.mu: "free" or the handler holding it
    hs,          \* per request handler: its position inside GetToken
    served,      \* history: per domain, what GetToken read since AddProvider
    addErr,      \* the error the last AddProvider call returned ("nil": none)
    fs,          \* the file system: path -> content (a sequence) or NoFile
    wpc,         \* the hosts writer's position inside Add / Remove
    wdata,       \* the writer's local buffer (data, newContent)
    pre,         \* history: the hosts file when the current/last call began
    preAdd,      \* history: the hosts file just before the last insertion
    init0,       \* history: the hosts file at the start
    lastOp,      \* history: the last completed mutating hosts call
    active,      \* history: what IsActive returned since then ("unknown": not called)
    edited,      \* history: another program has appended a line
    proc,        \* the main process: "running", "exited" or "killed"
    mpc,         \* startCommand's position (the main goroutine)
    spc,         \* the signal goroutine's position ("none": not started)
    sigChan,     \* a signal is buffered in sigChan
    notify,      \* signal.Notify has registered sigChan
    httpServer,  \* Server.httpServer: "nil" or "set"
    listener,    \* the TLS listener: "none", "open" or "closed"
    shutdownCalled, \* http.Server.Shutdown has been called
    wd,          \* the watchdog process: "none", "failed", "running", "cleanup", "exited"
    procfs,      \* the platform has /proc/<pid> (Linux)
    addDone,     \* history: this run's Add inserted the block
    stopReturned, \* history: server.Stop() has returned in the signal goroutine
    inbound,     \* the request handleRequest is serving / has served last
    upstream,    \* the request it sent upstream for it (NoRequest: none)
    status,      \* how it answered: "", "503 Service Unavailable", "upstream",
                 \* "502 Bad Gateway"
    route,       \* where the transport connected for the forwarded request,
                 \* and how often the client's request has entered handleRequest
    cfs,         \* the CA, certificate and trust store files: path -> content
    now,         \* time.Now(), in years
    distro,      \* the Linux distribution: "debian", "rhel" or "other"
    ca,          \* the *CA the command holds from EnsureCA: "nil" or "ca"
    cret,        \* the call of package proxy made last and what it returned
    startLog,    \* history: the stages startCommand has attempted, in order
    replaced,    \* history: the domain whose token list the last AddProvider
                 \* call overwrote ("": it overwrote none)
    inflight,    \* connections of the proxy that are serving a request
    grace,       \* seconds since Stop created its context.WithTimeout
    subprocess,  \* Supervisor.subprocess: the exec.Cmd last started (0: nil)
    procs,       \* the subprocesses by number: "none", "running", "exited"
    rpc,         \* where Supervisor.Run stands
    subprocessDone, \* the goroutine of Run that sends on subprocessDone
    done,        \* the goroutine of autoRotate that sends on done
    statusChan,  \* a monitor is blocked sending on statusChan
    cur,         \* index of the supervised pool's current token
    ret,         \* history: the subprocess whose Wait result made Run return
    signalled,   \* history: the subprocesses autoRotate has sent SIGTERM to
    newAdded     \* history: hosts.Add() of a later instance has returned nil

poolVars == <<providers, mu, hs, served, addErr>>
hostsVars == <<fs, wpc, wdata, pre, preAdd, init0, lastOp, active, edited>>

lifeVars == <<proc, mpc, spc, sigChan, notify, httpServer, listener,
              shutdownCalled, wd, procfs, addDone, stopReturned>>

proxyVars == <<inbound, upstream, status, route>>

\* the variables outside the pool, the hosts files and the process life
certVars == <<cfs, now, distro, ca, cret>>

\* the history variables kept for single specifications
stopVars == <<inflight, grace>>

supVars == <<subprocess, procs, rpc, subprocessDone, done, statusChan, cur,
             ret, signalled>>

auxVars == <<replaced, stopVars, supVars, newAdded>>

restVars == <<proxyVars, certVars, startLog, auxVars>>

vars == <<poolVars, hostsVars, lifeVars, restVars>>

NoRequest == [none |-> TRUE]

NoRoute == [addr |-> "", hops |-> 0]

\* no request has been handled
ProxyAtRest ==
    /\ inbound = NoRequest
    /\ upstream = NoRequest
    /\ status = ""
    /\ route = NoRoute

\* a path with no file; the files of package proxy
Absent == [kind |-> "absent"]
rootCAPath == "~/.ddollar/ca/rootCA.pem"
rootCAKeyPath == "~/.ddollar/ca/rootCA-key.pem"
certPath == "~/.ddollar/certs/cert.pem"
keyPath == "~/.ddollar/certs/key.pem"
debPath == "/usr/local/share/ca-certificates/ddollar.crt"
rhelPath == "/etc/pki/ca-trust/source/anchors/ddollar.pem"
nssDB == "~/.pki/nssdb"
CertFiles ==
    {rootCAPath, rootCAKeyPath, certPath, keyPath, debPath, rhelPath, nssDB}

NoCall == [op |-> "none", err |-> "nil", generated |-> FALSE, at |-> 0]

\* no call of package proxy has been made and none of its files exists
CertAtRest ==
    /\ cfs = [p \in CertFiles |-> Absent]
    /\ now = 0
    /\ distro = "debian"
    /\ ca = "nil"
    /\ cret = NoCall

\* the tokens of the supervised pool, and so the subprocesses one Run starts
MaxSubprocesses == 3

NoWaiter == [pc |-> "none", cmd |-> 0]

\* the supervisor before Run (the other specifications do not touch it)
SupAtRest ==
    /\ subprocess = 0
    /\ procs = [i \in 1..MaxSubprocesses |-> "none"]
    /\ rpc = "start"
    /\ subprocessDone = NoWaiter
    /\ done = NoWaiter
    /\ statusChan = FALSE
    /\ cur = 0
    /\ ret = 0
    /\ signalled = {}

AuxAtRest ==
    /\ replaced = "" /\ inflight = 0 /\ grace = 0
    /\ SupAtRest
    /\ newAdded = FALSE

RestAtRest == ProxyAtRest /\ CertAtRest /\ startLog = <<>> /\ AuxAtRest

(***************************************************************************)
(* Bounds of the model                                                     *)
(***************************************************************************)
MaxTokens == 3
MaxCalls == 4
MaxFileLen == 3
MaxCrashFileLen == 2
MaxNow == 2

\* the connections the proxy serves at once
MaxInflight == 1

\* token values, by position in the lists below
Tok == <<"t1", "t2", "t3", "t4", "t5", "t6">>
Handlers == {"h1", "h2"}

(***************************************************************************)
(* tokens.SupportedProviders (the two of the four the model registers)     *)
(***************************************************************************)
SupportedProviders ==
    { [Name |-> "OpenAI", Domain |-> "api.openai.com",
       AuthHeader |-> "Authorization", AuthPrefix |-> "Bearer "],
      [Name |-> "Anthropic", Domain |-> "api.anthropic.com",
       AuthHeader |-> "x-api-key", AuthPrefix |-> ""] }

Domains == { p.Domain : p \in SupportedProviders }

\* the token lists AddProvider is called with: of every length 0..MaxTokens,
\* in ascending order, in descending order, and one token repeated
TokenLists ==
    UNION { { [i \in 1..n |-> Tok[i]],
              [i \in 1..n |-> Tok[n + 1 - i]],
              [i \in 1..n |-> Tok[1]] } : n \in 0..MaxTokens }

NoPool == [none |-> TRUE]

NewProviderPoolLastIndex(provider, tokens) ==
    [provider |-> provider, tokens |-> tokens, index |-> Len(tokens) - 1]

\* &ProviderPool{provider, tokens, index: 0}
NewProviderPool(provider, tokens) ==
    [provider |-> provider, tokens |-> tokens, index |-> 0]

\* the mutex is free for handler h to take
MuFreeNoLock(h) == TRUE

MuFree(h) == mu = "free"

\* providerPool.tokens[providerPool.index]
CurrentToken(pp) == pp.tokens[pp.index + 1]

NextIndexSkip(pp) == (pp.index + 2) % Len(pp.tokens)

NextIndexNoWrap(pp) == pp.index + 1

\* (providerPool.index + 1) % len(providerPool.tokens)
NextIndex(pp) == (pp.index + 1) % Len(pp.tokens)

NoProvider == [Name |-> "", Domain |-> "", AuthHeader |-> "", AuthPrefix |-> ""]

Idle == [pc |-> "idle", domain |-> "", token |-> "", provider |-> NoProvider,
         err |-> FALSE]

(***************************************************************************)
(* Pool.AddProvider: the length check, then under the mutex the map write  *)
(***************************************************************************)
AddProviderErrNever(provider, tokens) == "nil"

\* if len(tokens) == 0 { return fmt.Errorf("no tokens provided for %s", ...) }
AddProviderErr(provider, tokens) ==
    IF Len(tokens) = 0 THEN "no tokens provided" ELSE "nil"

AddProvider(provider, tokens) ==
    /\ addErr' = AddProviderErr(provider, tokens)
    /\ IF AddProviderErr(provider, tokens) # "nil"
       THEN UNCHANGED <<providers, served>>
       ELSE /\ mu = "free"
            /\ providers' = [providers EXCEPT ![provider.Domain] =
                                 NewProviderPool(provider, tokens)]
            /\ served' = [served EXCEPT ![provider.Domain] = <<>>]
    /\ UNCHANGED <<mu, hs>>

\* Pool.ProviderCount: len(p.providers)
ProviderCount(pools) == Cardinality({ d \in DOMAIN pools : pools[d] # NoPool })

(***************************************************************************)
(* Pool.GetToken, one step per statement                                   *)
(***************************************************************************)
\* handleRequest calls GetToken(r.Host): the handler reaches p.mu.Lock()
GetTokenCall(h, domain) ==
    /\ hs[h].pc = "idle"
    /\ Len(served[domain]) < MaxCalls
    /\ hs' = [hs EXCEPT ![h] = [pc |-> "wait", domain |-> domain,
                                token |-> "", provider |-> NoProvider,
                                err |-> FALSE]]
    /\ UNCHANGED <<providers, mu, served, addErr>>

\* p.mu.Lock() returns
GetTokenLock(h) ==
    /\ hs[h].pc = "wait"
    /\ MuFree(h)
    /\ mu' = h
    /\ hs' = [hs EXCEPT ![h].pc = "locked"]
    /\ UNCHANGED <<providers, served, addErr>>

\* the map lookup and token := providerPool.tokens[providerPool.index]
GetTokenRead(h) ==
    /\ hs[h].pc = "locked"
    /\ LET d == hs[h].domain
           pp == providers[d]
       IN IF pp = NoPool
          THEN /\ hs' = [hs EXCEPT ![h].pc = "unlock", ![h].err = TRUE]
               /\ UNCHANGED served
          ELSE /\ hs' = [hs EXCEPT ![h].pc = "read",
                                   ![h].token = CurrentToken(pp),
                                   ![h].provider = pp.provider]
               /\ served' = [served EXCEPT ![d] =
                     Append(@, [index |-> pp.index,
                                token |-> CurrentToken(pp)])]
    /\ UNCHANGED <<providers, mu, addErr>>

AdvanceEveryIndex(pools, d) ==
    [e \in DOMAIN pools |->
        IF pools[e] = NoPool THEN NoPool
        ELSE [pools[e] EXCEPT !.index = NextIndex(pools[e])]]

\* the write through providerPool, the pointer stored under p.providers[domain]
AdvanceIndex(pools, d) == [pools EXCEPT ![d].index = NextIndex(pools[d])]

\* providerPool.index = (providerPool.index + 1) % len(providerPool.tokens)
GetTokenAdvance(h) ==
    /\ hs[h].pc = "read"
    /\ providers' = AdvanceIndex(providers, hs[h].domain)
    /\ hs' = [hs EXCEPT ![h].pc = "unlock"]
    /\ UNCHANGED <<mu, served, addErr>>

\* the deferred p.mu.Unlock() and the return to handleRequest
GetTokenUnlock(h) ==
    /\ hs[h].pc = "unlock"
    /\ mu' = IF mu = h THEN "free" ELSE mu
    /\ hs' = [hs EXCEPT ![h] = Idle]
    /\ UNCHANGED <<providers, served, addErr>>

InitPoolVars ==
    /\ providers = [d \in Domains |-> NoPool]
    /\ mu = "free"
    /\ hs = [h \in Handlers |-> Idle]
    /\ served = [d \in Domains |-> <<>>]
    /\ addErr = "nil"



(***************************************************************************)
(* Package hosts.  A file is a sequence of symbols: ordinary characters,   *)
(* LF, CR, and the two marker texts and the managed host entries, each     *)
(* taken as one symbol (none contains a line break).                       *)
(***************************************************************************)
LF == "\n"
CR == "\r"
ddollarMarkerStart == "# ddollar START - DO NOT EDIT"
ddollarMarkerEnd == "# ddollar END"

Providers ==
    <<"api.openai.com", "api.anthropic.com", "api.cohere.ai",
      "generativelanguage.googleapis.com">>

\* the content of a path that does not exist (no file holds this symbol)
NoFile == <<"ENOENT">>

HostsFilePath == "/etc/hosts"
BackupPath == "/etc/hosts.ddollar.backup"

TmpPathInPlace == HostsFilePath

\* tmpPath := hostsPath + ".tmp"
TmpPath == HostsFilePath \o ".tmp"

Paths == {HostsFilePath, BackupPath, TmpPath}

\* the symbols the initial hosts file is made of
FileChars == {"a", LF, CR, ddollarMarkerStart, ddollarMarkerEnd}

FilesUpTo(n) == UNION { [1..k -> FileChars] : k \in 0..n }

\* strings.Contains(s, marker), the marker being one symbol
Contains(s, marker) == \E i \in 1..Len(s) : s[i] = marker

\* strings.HasSuffix(s, "\n")
HasSuffixLF(s) == Len(s) > 0 /\ s[Len(s)] = LF

\* fmt.Sprintf("127.0.0.1 %s\n", provider)
RECURSIVE ProviderEntries(_)
ProviderEntries(ps) ==
    IF ps = <<>> THEN <<>>
    ELSE <<"127.0.0.1 " \o Head(ps), LF>> \o ProviderEntries(Tail(ps))

EntriesNoBlankLine ==
    <<ddollarMarkerStart, LF>> \o ProviderEntries(Providers)
        \o <<ddollarMarkerEnd, LF>>

\* the strings.Builder of Add
Entries ==
    <<LF, ddollarMarkerStart, LF>> \o ProviderEntries(Providers)
        \o <<ddollarMarkerEnd, LF>>

AlreadyActiveNever(content) == FALSE

\* strings.Contains(content, ddollarMarkerStart) in Add
AlreadyActive(content) == Contains(content, ddollarMarkerStart)

\* newContent := content + entries.String()
AddContent(content) == content \o Entries

DropCRNever(line) == line

\* bufio.ScanLines: a trailing CR of a line is dropped
DropCR(line) ==
    IF Len(line) > 0 /\ line[Len(line)] = CR
    THEN SubSeq(line, 1, Len(line) - 1)
    ELSE line

\* position of the first LF of data, 0 when there is none
FirstLF(data) ==
    IF \E i \in 1..Len(data) : data[i] = LF
    THEN CHOOSE i \in 1..Len(data) :
             data[i] = LF /\ \A j \in 1..(i - 1) : data[j] # LF
    ELSE 0

\* the tokens bufio.Scanner yields: the lines without their terminators; a
\* last line without LF is a line, an empty rest after the last LF is not
\* (the file's symbols are strings)
ScanLines[data \in Seq(STRING)] ==
    IF data = <<>> THEN <<>>
    ELSE LET i == FirstLF(data)
         IN IF i = 0
            THEN <<DropCR(data)>>
            ELSE <<DropCR(SubSeq(data, 1, i - 1))>>
                     \o ScanLines[SubSeq(data, i + 1, Len(data))]


\* the scanner loop of Remove: the lines it appends to `lines`
RemoveLoop[lines \in Seq(Seq(STRING)), inDdollarBlock \in BOOLEAN] ==
    IF lines = <<>> THEN <<>>
    ELSE LET line == Head(lines)
         IN IF Contains(line, ddollarMarkerStart)
            THEN RemoveLoop[Tail(lines), TRUE]
            ELSE IF Contains(line, ddollarMarkerEnd)
            THEN RemoveLoop[Tail(lines), FALSE]
            ELSE IF ~inDdollarBlock
            THEN <<line>> \o RemoveLoop[Tail(lines), inDdollarBlock]
            ELSE RemoveLoop[Tail(lines), inDdollarBlock]

\* strings.Join(lines, "\n")
Join[lines \in Seq(Seq(STRING))] ==
    IF lines = <<>> THEN <<>>
    ELSE IF Len(lines) = 1 THEN Head(lines)
    ELSE Head(lines) \o <<LF>> \o Join[Tail(lines)]

RemoveContentKeepAll(data) == data

\* newContent of Remove: the kept lines joined, with a final LF ensured
RemoveContent(data) ==
    LET newContent == Join[RemoveLoop[ScanLines[data], FALSE]]
    IN IF HasSuffixLF(newContent) THEN newContent ELSE newContent \o <<LF>>

\* IsActive, the hosts file being readable
IsActive(content) == Contains(content, ddollarMarkerStart)

hostsFile == fs[HostsFilePath]
backupFile == fs[BackupPath]

\* the processes that call into package hosts
Writers == {"cli", "main", "sig", "wd"}

\* os.WriteFile, first half: O_CREATE|O_TRUNC leaves the file empty
Truncated(f, path) == [f EXCEPT ![path] = <<>>]

\* os.WriteFile, second half: the data is in the file
Written(f, path, data) == [f EXCEPT ![path] = data]

\* os.Rename(from, to): atomic replace (renaming a file to itself changes nothing)
Renamed(f, from, to) ==
    IF from = to THEN f
    ELSE [f EXCEPT ![to] = f[from], ![from] = NoFile]

\* os.Rename fails with ENOENT when its source does not exist
RenameFails(f, from) == f[from] = NoFile

UnlinkedKept(f, path) == f

\* os.Remove(path)
Unlinked(f, path) == [f EXCEPT ![path] = NoFile]

(***************************************************************************)
(* hosts.Add, one step per file-system call                                *)
(***************************************************************************)
\* Backup(): os.ReadFile(hostsPath)
AddBackupRead(w) ==
    /\ wpc[w] = "idle"
    /\ wpc' = [wpc EXCEPT ![w] = "add_backup_open"]
    /\ wdata' = [wdata EXCEPT ![w] = fs[HostsFilePath]]
    /\ pre' = fs[HostsFilePath]
    /\ UNCHANGED <<fs, preAdd, init0, lastOp, active, edited>>

\* Backup(): os.WriteFile(backupPath, data, 0644) creates/truncates ...
AddBackupOpen(w) ==
    /\ wpc[w] = "add_backup_open"
    /\ fs' = Truncated(fs, BackupPath)
    /\ wpc' = [wpc EXCEPT ![w] = "add_backup_write"]
    /\ UNCHANGED <<wdata, pre, preAdd, init0, lastOp, active, edited>>

\* ... and writes the data
AddBackupWrite(w) ==
    /\ wpc[w] = "add_backup_write"
    /\ fs' = Written(fs, BackupPath, wdata[w])
    /\ wpc' = [wpc EXCEPT ![w] = "add_read"]
    /\ UNCHANGED <<wdata, pre, preAdd, init0, lastOp, active, edited>>

\* os.ReadFile(hostsPath), the marker check and the new content
AddRead(w) ==
    /\ wpc[w] = "add_read"
    /\ LET content == fs[HostsFilePath]
       IN IF AlreadyActive(content)
          THEN /\ wpc' = [wpc EXCEPT ![w] = "idle"]
               /\ wdata' = [wdata EXCEPT ![w] = <<>>]
               /\ lastOp' = "Add:exists"
               /\ active' = "unknown"
          ELSE /\ wpc' = [wpc EXCEPT ![w] = "add_tmp_open"]
               /\ wdata' = [wdata EXCEPT ![w] = AddContent(content)]
               /\ UNCHANGED <<lastOp, active>>
    /\ UNCHANGED <<fs, pre, preAdd, init0, edited>>

\* os.WriteFile(tmpPath, newContent, 0644) creates/truncates ...
AddTmpOpen(w) ==
    /\ wpc[w] = "add_tmp_open"
    /\ fs' = Truncated(fs, TmpPath)
    /\ wpc' = [wpc EXCEPT ![w] = "add_tmp_write"]
    /\ UNCHANGED <<wdata, pre, preAdd, init0, lastOp, active, edited>>

\* ... and writes the data
AddTmpWrite(w) ==
    /\ wpc[w] = "add_tmp_write"
    /\ fs' = Written(fs, TmpPath, wdata[w])
    /\ wpc' = [wpc EXCEPT ![w] = "add_rename"]
    /\ UNCHANGED <<wdata, pre, preAdd, init0, lastOp, active, edited>>

\* os.Rename(tmpPath, hostsPath); return nil (an error when the temporary
\* file is no longer there)
AddRename(w) ==
    /\ wpc[w] = "add_rename"
    /\ wpc' = [wpc EXCEPT ![w] = "idle"]
    /\ wdata' = [wdata EXCEPT ![w] = <<>>]
    /\ IF RenameFails(fs, TmpPath)
       THEN /\ lastOp' = "Add:error"
            /\ UNCHANGED <<fs, preAdd>>
       ELSE /\ fs' = Renamed(fs, TmpPath, HostsFilePath)
            /\ preAdd' = pre
            /\ lastOp' = "Add:ok"
    /\ active' = "unknown"
    /\ UNCHANGED <<pre, init0, edited>>

(***************************************************************************)
(* hosts.Remove                                                            *)
(***************************************************************************)
\* os.Open(hostsPath), the scanner loop and the new content
RemoveRead(w) ==
    /\ wpc[w] = "idle"
    /\ wpc' = [wpc EXCEPT ![w] = "remove_tmp_open"]
    /\ wdata' = [wdata EXCEPT ![w] = RemoveContent(fs[HostsFilePath])]
    /\ pre' = fs[HostsFilePath]
    /\ UNCHANGED <<fs, preAdd, init0, lastOp, active, edited>>

RemoveTmpOpen(w) ==
    /\ wpc[w] = "remove_tmp_open"
    /\ fs' = Truncated(fs, TmpPath)
    /\ wpc' = [wpc EXCEPT ![w] = "remove_tmp_write"]
    /\ UNCHANGED <<wdata, pre, preAdd, init0, lastOp, active, edited>>

RemoveTmpWrite(w) ==
    /\ wpc[w] = "remove_tmp_write"
    /\ fs' = Written(fs, TmpPath, wdata[w])
    /\ wpc' = [wpc EXCEPT ![w] = "remove_rename"]
    /\ UNCHANGED <<wdata, pre, preAdd, init0, lastOp, active, edited>>

\* os.Rename(tmpPath, hostsPath); return nil (an error when the temporary
\* file is no longer there)
RemoveRename(w) ==
    /\ wpc[w] = "remove_rename"
    /\ wpc' = [wpc EXCEPT ![w] = "idle"]
    /\ wdata' = [wdata EXCEPT ![w] = <<>>]
    /\ IF RenameFails(fs, TmpPath)
       THEN /\ lastOp' = "Remove:error"
            /\ UNCHANGED fs
       ELSE /\ fs' = Renamed(fs, TmpPath, HostsFilePath)
            /\ lastOp' = "Remove:ok"
    /\ active' = "unknown"
    /\ UNCHANGED <<pre, preAdd, init0, edited>>

(***************************************************************************)
(* hosts.Restore                                                           *)
(***************************************************************************)
\* os.Stat(backupPath) and os.ReadFile(backupPath)
RestoreRead(w) ==
    /\ wpc[w] = "idle"
    /\ pre' = fs[HostsFilePath]
    /\ IF fs[BackupPath] = NoFile
       THEN /\ lastOp' = "Restore:nobackup"
            /\ active' = "unknown"
            /\ UNCHANGED <<wpc, wdata>>
       ELSE /\ wpc' = [wpc EXCEPT ![w] = "restore_open"]
            /\ wdata' = [wdata EXCEPT ![w] = fs[BackupPath]]
            /\ UNCHANGED <<lastOp, active>>
    /\ UNCHANGED <<fs, preAdd, init0, edited>>

\* os.WriteFile(hostsPath, data, 0644) truncates the live file ...
RestoreOpen(w) ==
    /\ wpc[w] = "restore_open"
    /\ fs' = Truncated(fs, HostsFilePath)
    /\ wpc' = [wpc EXCEPT ![w] = "restore_write"]
    /\ UNCHANGED <<wdata, pre, preAdd, init0, lastOp, active, edited>>

\* ... and writes the backup's data into it
RestoreWrite(w) ==
    /\ wpc[w] = "restore_write"
    /\ fs' = Written(fs, HostsFilePath, wdata[w])
    /\ wpc' = [wpc EXCEPT ![w] = "restore_unlink"]
    /\ UNCHANGED <<wdata, pre, preAdd, init0, lastOp, active, edited>>

\* os.Remove(backupPath); return nil
RestoreUnlink(w) ==
    /\ wpc[w] = "restore_unlink"
    /\ fs' = Unlinked(fs, BackupPath)
    /\ wpc' = [wpc EXCEPT ![w] = "idle"]
    /\ wdata' = [wdata EXCEPT ![w] = <<>>]
    /\ lastOp' = "Restore:ok"
    /\ active' = "unknown"
    /\ UNCHANGED <<pre, preAdd, init0, edited>>

\* hosts.IsActive(): one os.ReadFile
IsActiveCall(w) ==
    /\ wpc[w] = "idle"
    /\ active' = IF IsActive(fs[HostsFilePath]) THEN "true" ELSE "false"
    /\ UNCHANGED <<fs, wpc, wdata, pre, preAdd, init0, lastOp, edited>>

\* another program appends a line to the hosts file (once)
ExternalEdit ==
    /\ ~edited
    /\ \A w \in Writers : wpc[w] = "idle"
    /\ edited' = TRUE
    /\ fs' = [fs EXCEPT ![HostsFilePath] = @ \o <<"a", LF>>]
    /\ active' = "unknown"
    /\ lastOp' = "edit"
    /\ UNCHANGED <<wpc, wdata, pre, preAdd, init0>>

AddPcs == {"add_backup_open", "add_backup_write", "add_read",
           "add_tmp_open", "add_tmp_write", "add_rename"}
RemovePcs == {"remove_tmp_open", "remove_tmp_write", "remove_rename"}

\* the process is killed between two file-system calls
Crash(w) ==
    /\ wpc[w] \in AddPcs \cup RemovePcs
    /\ wpc' = [wpc EXCEPT ![w] =
                  IF wpc[w] \in AddPcs THEN "crashed_add" ELSE "crashed_remove"]
    /\ UNCHANGED <<fs, wdata, pre, preAdd, init0, lastOp, active, edited>>

\* the operator runs the program again: a new process, the files as left
Restart(w) ==
    /\ wpc[w] \in {"crashed_add", "crashed_remove"}
    /\ wpc' = [wpc EXCEPT ![w] = "idle"]
    /\ wdata' = [wdata EXCEPT ![w] = <<>>]
    /\ lastOp' = "crashed"
    /\ active' = "unknown"
    /\ UNCHANGED <<fs, pre, preAdd, init0, edited>>

PoolAtRest == InitPoolVars

\* the process before startCommand does anything the model follows
LifeAtRest ==
    /\ proc = "running"
    /\ mpc = "install_trust"
    /\ spc = "none"
    /\ sigChan = FALSE
    /\ notify = FALSE
    /\ httpServer = "nil"
    /\ listener = "none"
    /\ shutdownCalled = FALSE
    /\ wd = "none"
    /\ procfs = TRUE
    /\ addDone = FALSE
    /\ stopReturned = FALSE

InitHostsVars(n) ==
    /\ init0 \in FilesUpTo(n)
    /\ fs = [p \in Paths |-> IF p = HostsFilePath THEN init0 ELSE NoFile]
    /\ wpc = [w \in Writers |-> "idle"]
    /\ wdata = [w \in Writers |-> <<>>]
    /\ pre = init0
    /\ preAdd = NoFile
    /\ lastOp = "none"
    /\ active = "unknown"
    /\ edited = FALSE

InitHosts ==
    InitHostsVars(MaxFileLen) /\ PoolAtRest /\ LifeAtRest /\ RestAtRest

NextHosts ==
    \/ AddBackupRead("cli") /\ UNCHANGED <<poolVars, lifeVars, restVars>>
    \/ AddBackupOpen("cli") /\ UNCHANGED <<poolVars, lifeVars, restVars>>
    \/ AddBackupWrite("cli") /\ UNCHANGED <<poolVars, lifeVars, restVars>>
    \/ AddRead("cli") /\ UNCHANGED <<poolVars, lifeVars, restVars>>
    \/ AddTmpOpen("cli") /\ UNCHANGED <<poolVars, lifeVars, restVars>>
    \/ AddTmpWrite("cli") /\ UNCHANGED <<poolVars, lifeVars, restVars>>
    \/ AddRename("cli") /\ UNCHANGED <<poolVars, lifeVars, restVars>>
    \/ RemoveRead("cli") /\ UNCHANGED <<poolVars, lifeVars, restVars>>
    \/ RemoveTmpOpen("cli") /\ UNCHANGED <<poolVars, lifeVars, restVars>>
    \/ RemoveTmpWrite("cli") /\ UNCHANGED <<poolVars, lifeVars, restVars>>
    \/ RemoveRename("cli") /\ UNCHANGED <<poolVars, lifeVars, restVars>>
    \/ RestoreRead("cli") /\ UNCHANGED <<poolVars, lifeVars, restVars>>
    \/ RestoreOpen("cli") /\ UNCHANGED <<poolVars, lifeVars, restVars>>
    \/ RestoreWrite("cli") /\ UNCHANGED <<poolVars, lifeVars, restVars>>
    \/ RestoreUnlink("cli") /\ UNCHANGED <<poolVars, lifeVars, restVars>>
    \/ IsActiveCall("cli") /\ UNCHANGED <<poolVars, lifeVars, restVars>>
    \/ ExternalEdit /\ UNCHANGED <<poolVars, lifeVars, restVars>>

SpecHosts == InitHosts /\ [][NextHosts]_vars

(***************************************************************************)
(* The same writer, killed at any point of Add or Remove                   *)
(***************************************************************************)
InitCrash ==
    InitHostsVars(MaxCrashFileLen) /\ PoolAtRest /\ LifeAtRest /\ RestAtRest

NextCrash ==
    \/ AddBackupRead("cli") /\ UNCHANGED <<poolVars, lifeVars, restVars>>
    \/ AddBackupOpen("cli") /\ UNCHANGED <<poolVars, lifeVars, restVars>>
    \/ AddBackupWrite("cli") /\ UNCHANGED <<poolVars, lifeVars, restVars>>
    \/ AddRead("cli") /\ UNCHANGED <<poolVars, lifeVars, restVars>>
    \/ AddTmpOpen("cli") /\ UNCHANGED <<poolVars, lifeVars, restVars>>
    \/ AddTmpWrite("cli") /\ UNCHANGED <<poolVars, lifeVars, restVars>>
    \/ AddRename("cli") /\ UNCHANGED <<poolVars, lifeVars, restVars>>
    \/ RemoveRead("cli") /\ UNCHANGED <<poolVars, lifeVars, restVars>>
    \/ RemoveTmpOpen("cli") /\ UNCHANGED <<poolVars, lifeVars, restVars>>
    \/ RemoveTmpWrite("cli") /\ UNCHANGED <<poolVars, lifeVars, restVars>>
    \/ RemoveRename("cli") /\ UNCHANGED <<poolVars, lifeVars, restVars>>
    \/ Crash("cli") /\ UNCHANGED <<poolVars, lifeVars, restVars>>
    \/ Restart("cli") /\ UNCHANGED <<poolVars, lifeVars, restVars>>

SpecCrash == InitCrash /\ [][NextCrash]_vars

(***************************************************************************)
(* `ddollar start`: startCommand, its signal goroutine, the proxy server   *)
(* and the watchdog process                                                *)
(***************************************************************************)
\* the hosts files a start can find: a plain one, and one that already
\* holds the block
LifeFiles == {<<"a", LF>>, AddContent(<<"a", LF>>)}

Running == proc = "running"

\* proxy.InstallTrust(ca) returns nil (VerifyTrust only chooses what is
\* printed)
MainInstallTrustOk ==
    /\ Running /\ mpc = "install_trust"
    /\ mpc' = "generate_cert"
    /\ startLog' = Append(startLog, "InstallTrust:ok")
    /\ UNCHANGED <<proc, spc, sigChan, notify, httpServer, listener,
                   shutdownCalled, wd, procfs, addDone, stopReturned>>
    /\ UNCHANGED <<hostsVars, poolVars, proxyVars, certVars, auxVars>>

ExitOnTrustError == "exit1"

\* where startCommand goes after the warning and PrintManualInstructions
AfterTrustError == "generate_cert"

\* proxy.InstallTrust(ca) returns an error: the warning is printed, then
\* proxy.PrintManualInstructions()
MainInstallTrustFail ==
    /\ Running /\ mpc = "install_trust"
    /\ mpc' = AfterTrustError
    /\ proc' = IF AfterTrustError = "exit1" THEN "exited" ELSE proc
    /\ startLog' = startLog \o <<"InstallTrust:error", "PrintManualInstructions">>
    /\ UNCHANGED <<spc, sigChan, notify, httpServer, listener,
                   shutdownCalled, wd, procfs, addDone, stopReturned>>
    /\ UNCHANGED <<hostsVars, poolVars, proxyVars, certVars, auxVars>>

\* proxy.GenerateCert() returns no error
MainGenerateCertOk ==
    /\ Running /\ mpc = "generate_cert"
    /\ mpc' = "watchdog"
    /\ startLog' = Append(startLog, "GenerateCert")
    /\ UNCHANGED <<proc, spc, sigChan, notify, httpServer, listener,
                   shutdownCalled, wd, procfs, addDone, stopReturned>>
    /\ UNCHANGED <<hostsVars, poolVars, proxyVars, certVars, auxVars>>

\* proxy.GenerateCert() returns an error: os.Exit(1)
MainGenerateCertFail ==
    /\ Running /\ mpc = "generate_cert"
    /\ mpc' = "exit1"
    /\ proc' = "exited"
    /\ startLog' = Append(startLog, "GenerateCert")
    /\ UNCHANGED <<spc, sigChan, notify, httpServer, listener,
                   shutdownCalled, wd, procfs, addDone, stopReturned>>
    /\ UNCHANGED <<hostsVars, poolVars, proxyVars, certVars, auxVars>>

\* watchdog.Start(): the child process is spawned
WatchdogStartOk ==
    /\ Running /\ mpc = "watchdog"
    /\ wd' = "running"
    /\ mpc' = "isactive"
    /\ UNCHANGED <<proc, spc, sigChan, notify, httpServer, listener,
                   shutdownCalled, procfs, addDone, stopReturned>>
    /\ startLog' = Append(startLog, "watchdog.Start")
    /\ UNCHANGED <<hostsVars, poolVars, proxyVars, certVars, auxVars>>

\* watchdog.Start() returns an error: startCommand prints a warning and goes on
WatchdogStartFail ==
    /\ Running /\ mpc = "watchdog"
    /\ wd' = "failed"
    /\ mpc' = "isactive"
    /\ UNCHANGED <<proc, spc, sigChan, notify, httpServer, listener,
                   shutdownCalled, procfs, addDone, stopReturned>>
    /\ startLog' = Append(startLog, "watchdog.Start")
    /\ UNCHANGED <<hostsVars, poolVars, proxyVars, certVars, auxVars>>

\* if !hosts.IsActive() { hosts.Add() }
MainIsActive ==
    /\ Running /\ mpc = "isactive"
    /\ mpc' = IF IsActive(hostsFile) THEN "new_server" ELSE "call_add"
    /\ UNCHANGED <<proc, spc, sigChan, notify, httpServer, listener,
                   shutdownCalled, wd, procfs, addDone, stopReturned>>
    /\ UNCHANGED <<hostsVars, poolVars, restVars>>

MainAddBegin ==
    /\ Running /\ mpc = "call_add"
    /\ AddBackupRead("main")
    /\ mpc' = "in_add"
    /\ UNCHANGED <<proc, spc, sigChan, notify, httpServer, listener,
                   shutdownCalled, wd, procfs, addDone, stopReturned>>
    /\ startLog' = Append(startLog, "hosts.Add")
    /\ UNCHANGED <<poolVars, proxyVars, certVars, auxVars>>

ContinueOnAddError == "new_server"

\* where startCommand goes when hosts.Add() returned an error: os.Exit(1)
AfterAddError == "exit1"

\* hosts.Add() fails in Backup(): the hosts file cannot be read
MainAddReadFail ==
    /\ Running /\ mpc = "call_add"
    /\ wpc["main"] = "idle"
    /\ lastOp' = "Add:error"
    /\ mpc' = AfterAddError
    /\ proc' = IF AfterAddError = "exit1" THEN "exited" ELSE proc
    /\ startLog' = Append(startLog, "hosts.Add")
    /\ UNCHANGED <<fs, wpc, wdata, pre, preAdd, init0, active, edited>>
    /\ UNCHANGED <<spc, sigChan, notify, httpServer, listener,
                   shutdownCalled, wd, procfs, addDone, stopReturned>>
    /\ UNCHANGED <<poolVars, proxyVars, certVars, auxVars>>

\* hosts.Add() fails in Backup(): the backup file cannot be written (the
\* directory of the hosts file is not writable)
MainAddWriteFail ==
    /\ Running /\ mpc = "in_add"
    /\ wpc["main"] = "add_backup_open"
    /\ wpc' = [wpc EXCEPT !["main"] = "idle"]
    /\ wdata' = [wdata EXCEPT !["main"] = <<>>]
    /\ lastOp' = "Add:error"
    /\ mpc' = AfterAddError
    /\ proc' = IF AfterAddError = "exit1" THEN "exited" ELSE proc
    /\ UNCHANGED <<fs, pre, preAdd, init0, active, edited>>
    /\ UNCHANGED <<spc, sigChan, notify, httpServer, listener,
                   shutdownCalled, wd, procfs, addDone, stopReturned>>
    /\ UNCHANGED <<poolVars, restVars>>

MainAddBackupOpen ==
    /\ Running /\ mpc = "in_add"
    /\ AddBackupOpen("main")
    /\ UNCHANGED <<lifeVars, poolVars, restVars>>

MainAddBackupWrite ==
    /\ Running /\ mpc = "in_add"
    /\ AddBackupWrite("main")
    /\ UNCHANGED <<lifeVars, poolVars, restVars>>

\* Add's marker check; on "already exist" startCommand calls os.Exit(1)
MainAddRead ==
    /\ Running /\ mpc = "in_add"
    /\ AddRead("main")
    /\ mpc' = IF AlreadyActive(hostsFile) THEN AfterAddError ELSE mpc
    /\ proc' = IF AlreadyActive(hostsFile) /\ AfterAddError = "exit1"
               THEN "exited" ELSE proc
    /\ UNCHANGED <<spc, sigChan, notify, httpServer, listener,
                   shutdownCalled, wd, procfs, addDone, stopReturned>>
    /\ UNCHANGED <<poolVars, restVars>>

MainAddTmpOpen ==
    /\ Running /\ mpc = "in_add"
    /\ AddTmpOpen("main")
    /\ UNCHANGED <<lifeVars, poolVars, restVars>>

MainAddTmpWrite ==
    /\ Running /\ mpc = "in_add"
    /\ AddTmpWrite("main")
    /\ UNCHANGED <<lifeVars, poolVars, restVars>>

\* Add returns: on an error startCommand calls os.Exit(1)
MainAddDone ==
    /\ Running /\ mpc = "in_add"
    /\ AddRename("main")
    /\ mpc' = IF RenameFails(fs, TmpPath) THEN AfterAddError ELSE "new_server"
    /\ proc' = IF RenameFails(fs, TmpPath) /\ AfterAddError = "exit1"
               THEN "exited" ELSE proc
    /\ addDone' = ~RenameFails(fs, TmpPath)
    /\ UNCHANGED <<spc, sigChan, notify, httpServer, listener,
                   shutdownCalled, wd, procfs, stopReturned>>
    /\ UNCHANGED <<poolVars, restVars>>

\* proxy.NewServer; signal.Notify(sigChan, os.Interrupt, syscall.SIGTERM)
MainNotify ==
    /\ Running /\ mpc = "new_server"
    /\ notify' = TRUE
    /\ mpc' = "go_handler"
    /\ UNCHANGED <<proc, spc, sigChan, httpServer, listener,
                   shutdownCalled, wd, procfs, addDone, stopReturned>>
    /\ UNCHANGED <<hostsVars, poolVars, restVars>>

\* go func() { <-sigChan; ... }()
MainGo ==
    /\ Running /\ mpc = "go_handler"
    /\ spc' = "waiting"
    /\ mpc' = "server_start"
    /\ UNCHANGED <<proc, sigChan, notify, httpServer, listener,
                   shutdownCalled, wd, procfs, addDone, stopReturned>>
    /\ UNCHANGED <<hostsVars, poolVars, restVars>>

\* Server.Start(): the certificate is made and loaded, s.httpServer assigned
ServerStartInit ==
    /\ Running /\ mpc = "server_start"
    /\ httpServer' = "set"
    /\ mpc' = "listen"
    /\ UNCHANGED <<proc, spc, sigChan, notify, listener,
                   shutdownCalled, wd, procfs, addDone, stopReturned>>
    /\ startLog' = Append(startLog, "server.Start")
    /\ UNCHANGED <<hostsVars, poolVars, proxyVars, certVars, auxVars>>

\* Server.Start(): GenerateCert or LoadX509KeyPair fails
ServerStartCertFail ==
    /\ Running /\ mpc = "server_start"
    /\ mpc' = "start_err"
    /\ UNCHANGED <<proc, spc, sigChan, notify, httpServer, listener,
                   shutdownCalled, wd, procfs, addDone, stopReturned>>
    /\ startLog' = Append(startLog, "server.Start")
    /\ UNCHANGED <<hostsVars, poolVars, proxyVars, certVars, auxVars>>

\* ListenAndServeTLS binds the port and serves; after Shutdown it returns
\* ErrServerClosed at once, which Start turns into nil
ServerListen ==
    /\ Running /\ mpc = "listen"
    /\ IF shutdownCalled
       THEN /\ mpc' = "start_returned"
            /\ UNCHANGED listener
       ELSE /\ mpc' = "serving"
            /\ listener' = "open"
    /\ UNCHANGED <<proc, spc, sigChan, notify, httpServer,
                   shutdownCalled, wd, procfs, addDone, stopReturned>>
    /\ UNCHANGED <<hostsVars, poolVars, restVars>>

\* ListenAndServeTLS cannot bind the port
ServerListenFail ==
    /\ Running /\ mpc = "listen"
    /\ ~shutdownCalled
    /\ mpc' = "start_err"
    /\ UNCHANGED <<proc, spc, sigChan, notify, httpServer, listener,
                   shutdownCalled, wd, procfs, addDone, stopReturned>>
    /\ UNCHANGED <<hostsVars, poolVars, restVars>>

\* Shutdown has closed the listener: ListenAndServeTLS returns
\* ErrServerClosed and Start returns nil
ServerServeReturn ==
    /\ Running /\ mpc = "serving"
    /\ shutdownCalled
    /\ mpc' = "start_returned"
    /\ UNCHANGED <<proc, spc, sigChan, notify, httpServer, listener,
                   shutdownCalled, wd, procfs, addDone, stopReturned>>
    /\ UNCHANGED <<hostsVars, poolVars, restVars>>

\* server.Start() returned nil: startCommand returns, main returns, the
\* process ends with every goroutine in it
MainReturn ==
    /\ Running /\ mpc = "start_returned"
    /\ proc' = "exited"
    /\ mpc' = "returned"
    /\ UNCHANGED <<spc, sigChan, notify, httpServer, listener,
                   shutdownCalled, wd, procfs, addDone, stopReturned>>
    /\ UNCHANGED <<hostsVars, poolVars, restVars>>

\* server.Start() returned an error: hosts.Remove(); os.Exit(1)
MainErrRemoveBegin ==
    /\ Running /\ mpc = "start_err"
    /\ RemoveRead("main")
    /\ mpc' = "err_remove"
    /\ UNCHANGED <<proc, spc, sigChan, notify, httpServer, listener,
                   shutdownCalled, wd, procfs, addDone, stopReturned>>
    /\ UNCHANGED <<poolVars, restVars>>

MainErrRemoveTmpOpen ==
    /\ Running /\ mpc = "err_remove"
    /\ RemoveTmpOpen("main")
    /\ UNCHANGED <<lifeVars, poolVars, restVars>>

MainErrRemoveTmpWrite ==
    /\ Running /\ mpc = "err_remove"
    /\ RemoveTmpWrite("main")
    /\ UNCHANGED <<lifeVars, poolVars, restVars>>

MainErrRemoveDone ==
    /\ Running /\ mpc = "err_remove"
    /\ RemoveRename("main")
    /\ mpc' = "err_exit"
    /\ UNCHANGED <<proc, spc, sigChan, notify, httpServer, listener,
                   shutdownCalled, wd, procfs, addDone, stopReturned>>
    /\ UNCHANGED <<poolVars, restVars>>

MainErrExit ==
    /\ Running /\ mpc = "err_exit"
    /\ proc' = "exited"
    /\ mpc' = "exit1"
    /\ UNCHANGED <<spc, sigChan, notify, httpServer, listener,
                   shutdownCalled, wd, procfs, addDone, stopReturned>>
    /\ UNCHANGED <<hostsVars, poolVars, restVars>>

\* SIGINT or SIGTERM reaches the process: buffered in sigChan once
\* signal.Notify has run, the default action (termination) before that
Signal ==
    /\ Running
    /\ ~sigChan
    /\ IF notify
       THEN /\ sigChan' = TRUE
            /\ UNCHANGED proc
       ELSE /\ proc' = "killed"
            /\ UNCHANGED sigChan
    /\ UNCHANGED <<mpc, spc, notify, httpServer, listener,
                   shutdownCalled, wd, procfs, addDone, stopReturned>>
    /\ UNCHANGED <<hostsVars, poolVars, restVars>>

\* SIGKILL: no handler runs
Kill ==
    /\ Running
    /\ proc' = "killed"
    /\ UNCHANGED <<mpc, spc, sigChan, notify, httpServer, listener,
                   shutdownCalled, wd, procfs, addDone, stopReturned>>
    /\ UNCHANGED <<hostsVars, poolVars, restVars>>

\* the signal goroutine: <-sigChan
SigReceive ==
    /\ Running /\ spc = "waiting"
    /\ sigChan
    /\ sigChan' = FALSE
    /\ spc' = "stop"
    /\ UNCHANGED <<proc, mpc, notify, httpServer, listener,
                   shutdownCalled, wd, procfs, addDone, stopReturned>>
    /\ UNCHANGED <<hostsVars, poolVars, restVars>>

\* server.Stop(): nil httpServer returns nil at once; otherwise Shutdown
\* closes the listener and then waits for the connections
SigStop ==
    /\ Running /\ spc = "stop"
    /\ IF httpServer = "nil"
       THEN /\ spc' = "call_remove"
            /\ stopReturned' = TRUE
            /\ UNCHANGED <<shutdownCalled, listener>>
       ELSE /\ spc' = "shutdown_wait"
            /\ shutdownCalled' = TRUE
            /\ listener' = IF listener = "open" THEN "closed" ELSE listener
            /\ UNCHANGED stopReturned
    /\ UNCHANGED <<proc, mpc, sigChan, notify, httpServer, wd, procfs,
                   addDone>>
    /\ UNCHANGED <<hostsVars, poolVars, restVars>>

\* context.WithTimeout(context.Background(), 5*time.Second)
ShutdownGrace == 5

\* a Shutdown whose context never expires
ShutdownDoneWhenIdle == inflight = 0

\* http.Server.Shutdown(ctx) returns nil once no connection is active, or
\* ctx.Err() once the context is done
ShutdownDone == inflight = 0 \/ grace = ShutdownGrace

\* Shutdown returns (connections idle, or the 5 s context expired)
SigShutdownReturn ==
    /\ Running /\ spc = "shutdown_wait"
    /\ ShutdownDone
    /\ spc' = "call_remove"
    /\ stopReturned' = TRUE
    /\ UNCHANGED <<proc, mpc, sigChan, notify, httpServer, listener,
                   shutdownCalled, wd, procfs, addDone>>
    /\ UNCHANGED <<hostsVars, poolVars, restVars>>

\* the listener accepts a connection and the handler starts on its request
ConnAccept ==
    /\ Running /\ mpc = "serving"
    /\ listener = "open"
    /\ inflight < MaxInflight
    /\ inflight' = inflight + 1
    /\ UNCHANGED <<lifeVars, hostsVars, poolVars, proxyVars, certVars,
                   startLog, replaced, grace, supVars, newAdded>>

\* a handler finishes its request and the connection becomes idle
ConnFinish ==
    /\ Running
    /\ inflight > 0
    /\ inflight' = inflight - 1
    /\ UNCHANGED <<lifeVars, hostsVars, poolVars, proxyVars, certVars,
                   startLog, replaced, grace, supVars, newAdded>>

\* a second passes while Shutdown polls for idle connections
GraceTick ==
    /\ Running /\ spc = "shutdown_wait"
    /\ grace < ShutdownGrace
    /\ grace' = grace + 1
    /\ UNCHANGED <<lifeVars, hostsVars, poolVars, proxyVars, certVars,
                   startLog, replaced, inflight, supVars, newAdded>>

\* the signal goroutine: hosts.Remove()
SigRemoveBegin ==
    /\ Running /\ spc = "call_remove"
    /\ RemoveRead("sig")
    /\ spc' = "in_remove"
    /\ UNCHANGED <<proc, mpc, sigChan, notify, httpServer, listener,
                   shutdownCalled, wd, procfs, addDone, stopReturned>>
    /\ UNCHANGED <<poolVars, restVars>>

SigRemoveTmpOpen ==
    /\ Running /\ spc = "in_remove"
    /\ RemoveTmpOpen("sig")
    /\ UNCHANGED <<lifeVars, poolVars, restVars>>

SigRemoveTmpWrite ==
    /\ Running /\ spc = "in_remove"
    /\ RemoveTmpWrite("sig")
    /\ UNCHANGED <<lifeVars, poolVars, restVars>>

SigRemoveDone ==
    /\ Running /\ spc = "in_remove"
    /\ RemoveRename("sig")
    /\ spc' = "exit0"
    /\ UNCHANGED <<proc, mpc, sigChan, notify, httpServer, listener,
                   shutdownCalled, wd, procfs, addDone, stopReturned>>
    /\ UNCHANGED <<poolVars, restVars>>

\* the signal goroutine: os.Exit(0)
SigExit ==
    /\ Running /\ spc = "exit0"
    /\ proc' = "exited"
    /\ spc' = "exited"
    /\ UNCHANGED <<mpc, sigChan, notify, httpServer, listener,
                   shutdownCalled, wd, procfs, addDone, stopReturned>>
    /\ UNCHANGED <<hostsVars, poolVars, restVars>>

\* RunWatchdog's probe: os.Stat("/proc/<pid>") reports IsNotExist
ParentGone == ~procfs \/ proc # "running"

\* a tick of RunWatchdog that finds the parent gone: cleanup() starts
\* hosts.Remove() (a tick that finds the parent changes nothing)
WatchdogTick ==
    /\ wd = "running"
    /\ ParentGone
    /\ RemoveRead("wd")
    /\ wd' = "cleanup"
    /\ UNCHANGED <<proc, mpc, spc, sigChan, notify, httpServer, listener,
                   shutdownCalled, procfs, addDone, stopReturned>>
    /\ UNCHANGED <<poolVars, restVars>>

WatchdogRemoveTmpOpen ==
    /\ wd = "cleanup"
    /\ RemoveTmpOpen("wd")
    /\ UNCHANGED <<lifeVars, poolVars, restVars>>

WatchdogRemoveTmpWrite ==
    /\ wd = "cleanup"
    /\ RemoveTmpWrite("wd")
    /\ UNCHANGED <<lifeVars, poolVars, restVars>>

RetryOnRemoveError(removeFailed) ==
    IF removeFailed THEN "running" ELSE "exited"

\* RunWatchdog after cleanup(): `return`, whatever hosts.Remove() returned
\* (cleanup only logs the error)
AfterCleanup(removeFailed) == "exited"

\* cleanup() is done; RunWatchdog returns and the watchdog process ends
WatchdogRemoveDone ==
    /\ wd = "cleanup"
    /\ RemoveRename("wd")
    /\ wd' = AfterCleanup(RenameFails(fs, TmpPath))
    /\ UNCHANGED <<proc, mpc, spc, sigChan, notify, httpServer, listener,
                   shutdownCalled, procfs, addDone, stopReturned>>
    /\ UNCHANGED <<poolVars, restVars>>

WatchdogStep ==
    \/ WatchdogTick
    \/ WatchdogRemoveTmpOpen
    \/ WatchdogRemoveTmpWrite
    \/ WatchdogRemoveDone

InitLife ==
    /\ init0 \in LifeFiles
    /\ fs = [p \in Paths |-> IF p = HostsFilePath THEN init0 ELSE NoFile]
    /\ wpc = [w \in Writers |-> "idle"]
    /\ wdata = [w \in Writers |-> <<>>]
    /\ pre = init0
    /\ preAdd = NoFile
    /\ lastOp = "none"
    /\ active = "unknown"
    /\ edited = FALSE
    /\ proc = "running"
    /\ mpc = "install_trust"
    /\ spc = "none"
    /\ sigChan = FALSE
    /\ notify = FALSE
    /\ httpServer = "nil"
    /\ listener = "none"
    /\ shutdownCalled = FALSE
    /\ wd = "none"
    /\ procfs \in BOOLEAN
    /\ addDone = FALSE
    /\ stopReturned = FALSE
    /\ PoolAtRest
    /\ RestAtRest

NextLife ==
    \/ MainInstallTrustOk
    \/ MainInstallTrustFail
    \/ MainGenerateCertOk
    \/ MainGenerateCertFail
    \/ WatchdogStartOk
    \/ WatchdogStartFail
    \/ MainIsActive
    \/ MainAddBegin
    \/ MainAddReadFail
    \/ MainAddWriteFail
    \/ MainAddBackupOpen
    \/ MainAddBackupWrite
    \/ MainAddRead
    \/ MainAddTmpOpen
    \/ MainAddTmpWrite
    \/ MainAddDone
    \/ MainNotify
    \/ MainGo
    \/ ServerStartInit
    \/ ServerStartCertFail
    \/ ServerListen
    \/ ServerListenFail
    \/ ServerServeReturn
    \/ MainReturn
    \/ MainErrRemoveBegin
    \/ MainErrRemoveTmpOpen
    \/ MainErrRemoveTmpWrite
    \/ MainErrRemoveDone
    \/ MainErrExit
    \/ Signal
    \/ Kill
    \/ SigReceive
    \/ SigStop
    \/ SigShutdownReturn
    \/ SigRemoveBegin
    \/ SigRemoveTmpOpen
    \/ SigRemoveTmpWrite
    \/ SigRemoveDone
    \/ SigExit
    \/ WatchdogTick
    \/ WatchdogRemoveTmpOpen
    \/ WatchdogRemoveTmpWrite
    \/ WatchdogRemoveDone

SpecLife == InitLife /\ [][NextLife]_vars

\* what a step of a later instance leaves alone
handRest == <<poolVars, lifeVars, proxyVars, certVars, startLog, replaced,
              stopVars, supVars>>

\* a later `ddollar start`, after this instance is gone: hosts.IsActive() is
\* false, so startCommand calls hosts.Add(), which begins with Backup()
NewInstanceAddBegin ==
    /\ ~Running
    /\ ~IsActive(hostsFile)
    /\ AddBackupRead("cli")
    /\ UNCHANGED newAdded

\* the later instance's hosts.Add(), statement by statement
NewInstanceAddStep ==
    /\ \/ AddBackupOpen("cli")
       \/ AddBackupWrite("cli")
       \/ AddRead("cli")
       \/ AddTmpOpen("cli")
       \/ AddTmpWrite("cli")
    /\ UNCHANGED newAdded

\* the later instance's hosts.Add() returns: nil after the rename
NewInstanceAddDone ==
    /\ AddRename("cli")
    /\ newAdded' = (newAdded \/ ~RenameFails(fs, TmpPath))

\* the life cycle of one instance, its watchdog, and the start of the next
NextHandover ==
    \/ NextLife
    \/ NewInstanceAddBegin /\ UNCHANGED handRest
    \/ NewInstanceAddStep /\ UNCHANGED handRest
    \/ NewInstanceAddDone /\ UNCHANGED handRest

SpecHandover == InitLife /\ [][NextHandover]_vars

\* the life cycle with connections in flight and the clock of Stop's context
NextStop ==
    \/ NextLife
    \/ ConnAccept
    \/ ConnFinish
    \/ GraceTick

SpecStop == InitLife /\ [][NextStop]_vars

\* time passes, and the signal goroutine runs while the process lives; no
\* request is obliged to finish
FairStop == SpecStop /\ WF_vars(GraceTick) /\ WF_vars(SigShutdownReturn)

\* the watchdog is a process of its own: its ticker and its cleanup go on
\* whatever happens to the main process
FairLife == SpecLife /\ WF_vars(WatchdogStep)

\* the hosts side at rest (the pool specification does not touch it)
HostsAtRest ==
    /\ fs = [p \in Paths |-> IF p = HostsFilePath THEN <<>> ELSE NoFile]
    /\ wpc = [w \in Writers |-> "idle"]
    /\ wdata = [w \in Writers |-> <<>>]
    /\ pre = <<>>
    /\ preAdd = NoFile
    /\ init0 = <<>>
    /\ lastOp = "none"
    /\ active = "unknown"
    /\ edited = FALSE

InitPool == InitPoolVars /\ HostsAtRest /\ LifeAtRest /\ RestAtRest

NextPool ==
    \/ \E p \in SupportedProviders, t \in TokenLists :
           /\ AddProvider(p, t)
           /\ replaced' = IF Len(t) > 0 /\ providers[p.Domain] # NoPool
                           THEN p.Domain ELSE ""
           /\ UNCHANGED <<hostsVars, lifeVars, proxyVars, certVars, startLog,
                          stopVars, supVars, newAdded>>
    \/ \E h \in Handlers, d \in Domains :
           GetTokenCall(h, d) /\ UNCHANGED <<hostsVars, lifeVars, restVars>>
    \/ \E h \in Handlers : GetTokenLock(h) /\ UNCHANGED <<hostsVars, lifeVars, restVars>>
    \/ \E h \in Handlers : GetTokenRead(h) /\ UNCHANGED <<hostsVars, lifeVars, restVars>>
    \/ \E h \in Handlers : GetTokenAdvance(h) /\ UNCHANGED <<hostsVars, lifeVars, restVars>>
    \/ \E h \in Handlers : GetTokenUnlock(h) /\ UNCHANGED <<hostsVars, lifeVars, restVars>>

SpecPool == InitPool /\ [][NextPool]_vars

(***************************************************************************)
(* Server.handleRequest: GetToken for r.Host, then 503 or the reverse      *)
(* proxy with the Director that injects the token.  A path and a query are *)
(* sequences of symbols; a header is a map from canonical key to values.   *)
(***************************************************************************)
HeaderKeys ==
    {"Authorization", "X-Api-Key", "X-Goog-Api-Key", "Accept", "Connection"}

\* textproto.CanonicalMIMEHeaderKey, on the spellings the model uses
CanonicalHeaderKey(name) ==
    CASE name \in {"Authorization", "authorization", "AUTHORIZATION"}
             -> "Authorization"
      [] name \in {"X-Api-Key", "x-api-key", "X-API-KEY"} -> "X-Api-Key"
      [] name \in {"X-Goog-Api-Key", "x-goog-api-key"} -> "X-Goog-Api-Key"
      [] name \in {"Accept", "accept"} -> "Accept"
      [] name \in {"Connection", "connection"} -> "Connection"

NoHeaders == [k \in HeaderKeys |-> <<>>]

\* the server reads the header lines of a request into http.Header
ReadHeaders[lines \in Seq(Seq(STRING))] ==
    IF lines = <<>> THEN NoHeaders
    ELSE LET rest == ReadHeaders[Tail(lines)]
             k == CanonicalHeaderKey(Head(lines)[1])
         IN [rest EXCEPT ![k] = <<Head(lines)[2]>> \o @]

\* http.Header.Del(key)
HeaderDel(h, key) == [h EXCEPT ![CanonicalHeaderKey(key)] = <<>>]

\* http.Header.Set(key, value)
HeaderSet(h, key, value) == [h EXCEPT ![CanonicalHeaderKey(key)] = <<value>>]

\* the header lines clients send
ClientHeaderLines ==
    { <<>>,
      << <<"Authorization", "client-a">>, <<"authorization", "client-b">> >>,
      << <<"X-API-KEY", "client-b">>, <<"AUTHORIZATION", "client-a">>,
         <<"x-goog-api-key", "client-a">>, <<"Accept", "json">> >>,
      << <<"Connection", "authorization">>, <<"connection", "X-Api-Key">>,
         <<"Authorization", "client-a">> >> }

Methods == {"GET", "POST"}

RequestPaths == { <<"/">>, <<"/", "v1", "/", "chat">> }

RequestQueries == { <<>>, <<"k=v">> }

\* the requests the server hands to handleRequest (a server-side request
\* has no scheme and no host in its URL)
InboundRequests ==
    { [Method |-> m, Host |-> d, Scheme |-> "", URLHost |-> "", Path |-> p,
       RawQuery |-> q, Header |-> ReadHeaders[l]] :
        m \in Methods, d \in Domains, p \in RequestPaths,
        q \in RequestQueries, l \in ClientHeaderLines }

\* targetURL := &url.URL{Scheme: "https", Host: domain, Path: r.URL.Path,
\*                       RawQuery: r.URL.RawQuery}
TargetURL(domain, r) ==
    [Scheme |-> "https", Host |-> domain, Path |-> r.Path,
     RawQuery |-> r.RawQuery]

\* httputil: singleJoiningSlash(a, b)
SingleJoiningSlash(a, b) ==
    LET aslash == Len(a) > 0 /\ a[Len(a)] = "/"
        bslash == Len(b) > 0 /\ b[1] = "/"
    IN IF aslash /\ bslash THEN a \o Tail(b)
       ELSE IF ~aslash /\ ~bslash THEN a \o <<"/">> \o b
       ELSE a \o b

\* httputil: the Director of NewSingleHostReverseProxy(target)
OriginalDirector(req, target) ==
    [req EXCEPT !.Scheme = target.Scheme,
                !.URLHost = target.Host,
                !.Path = SingleJoiningSlash(target.Path, req.Path),
                !.RawQuery =
                    IF target.RawQuery = <<>> \/ req.RawQuery = <<>>
                    THEN target.RawQuery \o req.RawQuery
                    ELSE target.RawQuery \o <<"&">> \o req.RawQuery]

\* proxy.Director of handleRequest
Director(req, domain, token, provider) ==
    LET r1 == OriginalDirector(req, TargetURL(domain, req))
        r2 == [r1 EXCEPT !.Host = domain, !.Scheme = "https",
                         !.URLHost = domain]
        h1 == HeaderDel(r2.Header, "Authorization")
        h2 == HeaderDel(h1, "x-api-key")
        h3 == HeaderDel(h2, "x-goog-api-key")
        authValue == provider.AuthPrefix \o token
    IN [r2 EXCEPT !.Header = HeaderSet(h3, provider.AuthHeader, authValue)]

\* httputil: removeHopByHopHeaders, which ReverseProxy.ServeHTTP applies to
\* the outgoing request after the Director has returned: the headers the
\* Connection header names are deleted, and Connection itself
RemoveHopByHopHeaders(h) ==
    LET named == { CanonicalHeaderKey(h["Connection"][i]) :
                     i \in 1..Len(h["Connection"]) }
    IN [k \in HeaderKeys |->
           IF k \in named \/ k = "Connection" THEN <<>> ELSE h[k]]

\* proxy.ServeHTTP(w, r): the request that goes upstream
ServeHTTP(req, domain, token, provider) ==
    LET outreq == Director(req, domain, token, provider)
    IN [outreq EXCEPT !.Header = RemoveHopByHopHeaders(@)]

\* the token lists the proxy's pool is loaded with: of every length
\* 0..MaxTokens
ProxyTokenLists == { [i \in 1..n |-> Tok[i]] : n \in 0..MaxTokens }

\* the one request handler the proxy specification follows
ProxyHandler == "h1"

\* handleRequest is called: domain := r.Host; s.tokenPool.GetToken(domain)
ProxyRequest(r) ==
    /\ GetTokenCall(ProxyHandler, r.Host)
    /\ inbound' = r
    /\ upstream' = NoRequest
    /\ status' = ""
    /\ route' = [addr |-> "", hops |-> 1]

ProxyGetTokenLock == GetTokenLock(ProxyHandler) /\ UNCHANGED proxyVars

ProxyGetTokenRead == GetTokenRead(ProxyHandler) /\ UNCHANGED proxyVars

ProxyGetTokenAdvance == GetTokenAdvance(ProxyHandler) /\ UNCHANGED proxyVars

HandleResultForwardAnyway(r, h) == [status |-> "upstream", upstream |-> r]

\* what handleRequest does with GetToken's result: on an error
\* http.Error(w, ..., 503) and return; otherwise proxy.ServeHTTP sends the
\* request the Director made
HandleResult(r, h) ==
    IF h.err
    THEN [status |-> "503 Service Unavailable", upstream |-> NoRequest]
    ELSE [status |-> "upstream",
          upstream |-> ServeHTTP(r, r.Host, h.token, h.provider)]

\* GetToken returns and handleRequest answers
LoopbackAddr == "127.0.0.1"

\* how often the model follows one client request through handleRequest
MaxHops == 3

\* the address the transport of proxy.ServeHTTP dials for a host: the
\* resolver reads the hosts file first, so a host with a "127.0.0.1 <host>"
\* line there is the loopback address, any other its address in DNS
LookupHost(f, host) ==
    IF \E i \in 1..Len(f) : f[i] = LoopbackAddr \o " " \o host
    THEN LoopbackAddr
    ELSE "dns:" \o host

\* GetToken returns and handleRequest answers; a forwarded request is sent
\* to the address its URL host resolves to
ProxyRespond ==
    /\ GetTokenUnlock(ProxyHandler)
    /\ status' = HandleResult(inbound, hs[ProxyHandler]).status
    /\ upstream' = HandleResult(inbound, hs[ProxyHandler]).upstream
    /\ route' = [route EXCEPT !.addr =
                     IF upstream' = NoRequest THEN ""
                     ELSE LookupHost(fs[HostsFilePath], upstream'.URLHost)]
    /\ UNCHANGED inbound

\* the forwarded request was sent to 127.0.0.1:443, the proxy's own listener,
\* and the TLS handshake succeeded (the ddollar CA is in the system roots):
\* handleRequest is called with it
ProxyReenter ==
    /\ status = "upstream"
    /\ route.addr = LoopbackAddr
    /\ route.hops < MaxHops
    /\ GetTokenCall(ProxyHandler, upstream.Host)
    /\ inbound' = [upstream EXCEPT !.Scheme = "", !.URLHost = ""]
    /\ upstream' = NoRequest
    /\ status' = ""
    /\ route' = [addr |-> "", hops |-> route.hops + 1]

\* the forwarded request was sent to the proxy's own listener and the
\* transport rejected its certificate (the ddollar CA is not in the system
\* roots): ReverseProxy's error handler answers 502
ProxyBadGateway ==
    /\ status = "upstream"
    /\ route.addr = LoopbackAddr
    /\ status' = "502 Bad Gateway"
    /\ UNCHANGED <<inbound, upstream, route, poolVars>>

ProxyAddProvider(provider, tokens) ==
    AddProvider(provider, tokens) /\ UNCHANGED proxyVars

InitProxy == InitPoolVars /\ HostsAtRest /\ LifeAtRest /\ RestAtRest

NextProxy ==
    \/ \E p \in SupportedProviders, t \in ProxyTokenLists :
           ProxyAddProvider(p, t) /\ UNCHANGED <<hostsVars, lifeVars, certVars, startLog, auxVars>>
    \/ \E r \in InboundRequests :
           ProxyRequest(r) /\ UNCHANGED <<hostsVars, lifeVars, certVars, startLog, auxVars>>
    \/ ProxyGetTokenLock /\ UNCHANGED <<hostsVars, lifeVars, certVars, startLog, auxVars>>
    \/ ProxyGetTokenRead /\ UNCHANGED <<hostsVars, lifeVars, certVars, startLog, auxVars>>
    \/ ProxyGetTokenAdvance /\ UNCHANGED <<hostsVars, lifeVars, certVars, startLog, auxVars>>
    \/ ProxyRespond /\ UNCHANGED <<hostsVars, lifeVars, certVars, startLog, auxVars>>

SpecProxy == InitProxy /\ [][NextProxy]_vars

(***************************************************************************)
(* The proxy with the hosts file its transport resolves against: requests  *)
(* that are forwarded to the proxy's own listener come in again.           *)
(***************************************************************************)
\* the hosts file while the proxy serves: with the block Add has inserted,
\* or without it (removed meanwhile)
RouteHostsFiles == {<<"a", LF>>, AddContent(<<"a", LF>>)}

\* the client requests of this specification
RouteRequests ==
    { r \in InboundRequests :
        /\ r.Method = "POST"
        /\ r.RawQuery = <<>>
        /\ r.Header \in {ReadHeaders[<<>>]} }

InitRoute ==
    /\ InitPoolVars /\ LifeAtRest /\ RestAtRest
    /\ init0 \in RouteHostsFiles
    /\ fs = [p \in Paths |-> IF p = HostsFilePath THEN init0 ELSE NoFile]
    /\ wpc = [w \in Writers |-> "idle"]
    /\ wdata = [w \in Writers |-> <<>>]
    /\ pre = init0
    /\ preAdd = NoFile
    /\ lastOp = "none"
    /\ active = "unknown"
    /\ edited = FALSE

NextRoute ==
    \/ \E p \in SupportedProviders, t \in ProxyTokenLists :
           ProxyAddProvider(p, t) /\ UNCHANGED <<hostsVars, lifeVars, certVars, startLog, auxVars>>
    \/ \E r \in RouteRequests :
           ProxyRequest(r) /\ UNCHANGED <<hostsVars, lifeVars, certVars, startLog, auxVars>>
    \/ ProxyGetTokenLock /\ UNCHANGED <<hostsVars, lifeVars, certVars, startLog, auxVars>>
    \/ ProxyGetTokenRead /\ UNCHANGED <<hostsVars, lifeVars, certVars, startLog, auxVars>>
    \/ ProxyGetTokenAdvance /\ UNCHANGED <<hostsVars, lifeVars, certVars, startLog, auxVars>>
    \/ ProxyRespond /\ UNCHANGED <<hostsVars, lifeVars, certVars, startLog, auxVars>>
    \/ ProxyReenter /\ UNCHANGED <<hostsVars, lifeVars, certVars, startLog, auxVars>>
    \/ ProxyBadGateway /\ UNCHANGED <<hostsVars, lifeVars, certVars, startLog, auxVars>>

SpecRoute == InitRoute /\ [][NextRoute]_vars

(***************************************************************************)
(* Package proxy: the local CA (mkcert.go), the leaf certificate (cert.go) *)
(* and the Linux trust store.  A file's content is what the parsers make   *)
(* of it: bytes with no PEM block, a PEM block that is neither, a private  *)
(* key, or a certificate with its validity, its DNS names and its key pair.*)
(* Time is counted in years.                                               *)
(***************************************************************************)
Garbage == [kind |-> "garbage"]
PemJunk == [kind |-> "pem"]
PrivateKey(pair) == [kind |-> "key", Key |-> pair]
Certificate(nb, na, names, isCA, pair) ==
    [kind |-> "cert", NotBefore |-> nb, NotAfter |-> na, DNSNames |-> names,
     IsCA |-> isCA, Key |-> pair, Issuer |-> pair]

\* a leaf certificate: x509.CreateCertificate(rand, &template, caCert, ...)
\* makes the parent caCert its issuer (issuer: the key pair of that CA)
LeafCertificate(nb, na, names, issuer) ==
    [Certificate(nb, na, names, FALSE, "leaf") EXCEPT !.Issuer = issuer]

\* block, _ := pem.Decode(data); block != nil
PemDecodes(data) == data.kind \in {"pem", "key", "cert"}
\* x509.ParseCertificate(block.Bytes) returns no error
ParsesAsCertificate(data) == data.kind = "cert"
\* x509.ParsePKCS1PrivateKey(block.Bytes) returns no error
ParsesAsKey(data) == data.kind = "key"
\* os.Stat(path) returns no error
Exists(f, path) == f[path] # Absent

\* NotAfter of generateCA: now.Add(10 * 365 * 24 * time.Hour);
\* NotAfter of generateLeafCert: time.Now().Add(365 * 24 * time.Hour)
CAValidity == 10
LeafValidity == 1

requiredDomains ==
    <<"api.openai.com", "api.anthropic.com", "api.cohere.ai",
      "generativelanguage.googleapis.com", "localhost">>

FoundAlways(names, required) == TRUE

\* the inner loop of ValidateCert: for _, domain := range cert.DNSNames
Found(names, required) == \E i \in 1..Len(names) : names[i] = required

ValidateCertAlwaysNil(f, path, t) == "nil"

\* ValidateCert(certPath): the error it returns, "nil" for none
EnsureCAAlwaysGenerates(f, t) ==
    [fs |-> [f EXCEPT
               ![rootCAPath] = Certificate(t, t + CAValidity, <<>>, TRUE, "new"),
               ![rootCAKeyPath] = PrivateKey("new")],
     err |-> "nil"]

ValidateCert(f, path, t) ==
    LET data == f[path] IN
    IF ~Exists(f, path) THEN "certificate file not found"
    ELSE IF ~PemDecodes(data) THEN "certificate is not valid PEM format"
    ELSE IF ~ParsesAsCertificate(data) THEN "failed to parse certificate"
    ELSE IF t < data.NotBefore THEN "certificate not yet valid"
    ELSE IF t > data.NotAfter THEN "certificate expired"
    ELSE IF \E i \in 1..Len(requiredDomains) :
                ~Found(data.DNSNames, requiredDomains[i])
         THEN "certificate does not cover required domain"
    ELSE "nil"

\* loadCA(certPath, keyPath): the error it returns
loadCA(f) ==
    LET data == f[rootCAPath] IN
    IF ~Exists(f, rootCAPath) THEN "failed to read CA certificate"
    ELSE IF ~PemDecodes(data) THEN "failed to decode CA certificate PEM"
    ELSE IF ~ParsesAsCertificate(data) THEN "failed to parse CA certificate"
    ELSE IF ~Exists(f, rootCAKeyPath) THEN "CA private key not found"
    ELSE "nil"

\* generateCA: a new key, a self-signed certificate, both files written,
\* then loadCA
generateCA(f, t) ==
    LET g == [f EXCEPT
                ![rootCAPath] = Certificate(t, t + CAValidity, <<>>, TRUE, "new"),
                ![rootCAKeyPath] = PrivateKey("new")]
    IN [fs |-> g, err |-> loadCA(g)]

\* EnsureCA: loadCA when rootCA.pem exists, else generateCA
EnsureCA(f, t) ==
    IF Exists(f, rootCAPath) THEN [fs |-> f, err |-> loadCA(f)]
    ELSE generateCA(f, t)

LeafDNSNamesWithoutFirst(domains) == Tail(domains)

\* DNSNames: domains, in the template of generateLeafCert
LeafDNSNames(domains) == domains

\* generateCertFromCA and generateLeafCert: the CA files are read and
\* parsed, then x509.CreateCertificate signs the template.  strict: the
\* crypto/x509 of the build refuses a signing key that is not the parent's.
generateCertFromCA(f, t, domains, strict) ==
    LET caCert == f[rootCAPath]
        caKey == f[rootCAKeyPath]
        fail(e) == [err |-> e, cert |-> Absent, key |-> Absent]
    IN IF ~Exists(f, rootCAPath) THEN fail("failed to read CA certificate")
       ELSE IF ~Exists(f, rootCAKeyPath) THEN fail("failed to read CA key")
       ELSE IF ~PemDecodes(caCert)
            THEN fail("failed to decode CA certificate PEM")
       ELSE IF ~ParsesAsCertificate(caCert)
            THEN fail("failed to parse CA certificate")
       ELSE IF ~PemDecodes(caKey) THEN fail("failed to decode CA key PEM")
       ELSE IF ~ParsesAsKey(caKey) THEN fail("failed to parse CA key")
       ELSE IF strict /\ caKey.Key # caCert.Key
            THEN fail("failed to create certificate")
       ELSE [err |-> "nil",
             cert |-> LeafCertificate(t, t + LeafValidity,
                                      LeafDNSNames(domains), caCert.Key),
             key |-> PrivateKey("leaf")]

\* GenerateCert: the files afterwards, the error, and whether a new leaf
\* certificate was generated
GenerateCert(f, t, strict) ==
    IF Exists(f, certPath) /\ ValidateCert(f, certPath, t) = "nil"
    THEN [fs |-> f, err |-> "nil", generated |-> FALSE]
    ELSE LET e == EnsureCA(f, t) IN
         IF e.err # "nil"
         THEN [fs |-> e.fs, err |-> "failed to initialize CA",
               generated |-> FALSE]
         ELSE LET g == generateCertFromCA(e.fs, t, requiredDomains, strict) IN
              IF g.err # "nil"
              THEN [fs |-> e.fs, err |-> "failed to generate certificate",
                    generated |-> FALSE]
              ELSE [fs |-> [e.fs EXCEPT ![certPath] = g.cert,
                                        ![keyPath] = g.key],
                    err |-> "nil", generated |-> TRUE]

\* RegenerateCert: os.Remove(certPath), os.Remove(keyPath), GenerateCert()
RegenerateCert(f, t, strict) ==
    GenerateCert([f EXCEPT ![certPath] = Absent, ![keyPath] = Absent],
                 t, strict)

\* cert.Verify(opts) with opts.Roots holding cert itself: the chain is the
\* certificate alone, and what is left to check is its validity period
VerifyAgainstItself(cert, t) == cert.NotBefore <= t /\ t <= cert.NotAfter

\* verifyTrustLinux
verifyTrustLinux(f) ==
    IF Exists(f, debPath) THEN "nil"
    ELSE IF Exists(f, rhelPath) THEN "nil"
    ELSE "CA not found in Linux trust store"

\* VerifyTrust(ca)
VerifyTrust(f, t) ==
    LET data == f[rootCAPath] IN
    IF ~Exists(f, rootCAPath) THEN "failed to read CA certificate"
    ELSE IF ~PemDecodes(data) THEN "failed to decode CA certificate PEM"
    ELSE IF ~ParsesAsCertificate(data) THEN "failed to parse CA certificate"
    ELSE IF ~VerifyAgainstItself(data, t) THEN verifyTrustLinux(f)
    ELSE "nil"

\* the NSS database (Firefox, Chromium): whether it holds the ddollar CA
NssDb(hasCA) == [kind |-> "nssdb", hasCA |-> hasCA]

\* installTrustNSS: nothing when the database is absent, else certutil -A
\* (nssOk: certutil succeeded)
installTrustNSS(f, nssOk) ==
    IF ~Exists(f, nssDB) THEN [fs |-> f, err |-> "nil"]
    ELSE IF nssOk THEN [fs |-> [f EXCEPT ![nssDB] = NssDb(TRUE)], err |-> "nil"]
    ELSE [fs |-> f, err |-> "NSS installation failed (non-fatal)"]

PropagateNSSError(nssErr) == nssErr

\* _ = installTrustNSS(ca); return nil
IgnoreNSSError(nssErr) == "nil"

\* installTrustLinux: the copy to the distribution's path, then its update
\* command (cmdOk: the command succeeded), then installTrustNSS
installTrustLinux(f, d, cmdOk, nssOk) ==
    LET destPath == IF d = "rhel" THEN rhelPath ELSE debPath
        copied == [f EXCEPT ![destPath] = f[rootCAPath]]
        nss == installTrustNSS(copied, nssOk)
    IN IF ~Exists(f, rootCAPath)
       THEN [fs |-> f, err |-> "failed to read CA certificate"]
       ELSE IF ~cmdOk
       THEN [fs |-> copied, err |-> "failed to update CA certificates"]
       ELSE [fs |-> nss.fs, err |-> IgnoreNSSError(nss.err)]

\* uninstallTrustNSS: nothing when the database is absent, else certutil -D,
\* its result dropped
uninstallTrustNSS(f, nssOk) ==
    IF Exists(f, nssDB) /\ nssOk THEN [f EXCEPT ![nssDB] = NssDb(FALSE)] ELSE f

\* uninstallTrustLinux: each of the two paths that exists is removed and
\* its update command run, then uninstallTrustNSS
uninstallTrustLinux(f, debOk, rhelOk, nssOk) ==
    LET f1 == IF Exists(f, debPath) THEN [f EXCEPT ![debPath] = Absent] ELSE f
        f2 == IF Exists(f1, rhelPath) THEN [f1 EXCEPT ![rhelPath] = Absent]
              ELSE f1
    IN IF Exists(f, debPath) /\ ~debOk
       THEN [fs |-> f1, err |-> "failed to update CA certificates"]
       ELSE IF Exists(f1, rhelPath) /\ ~rhelOk
       THEN [fs |-> f2, err |-> "failed to update CA trust"]
       ELSE [fs |-> uninstallTrustNSS(f2, nssOk), err |-> "nil"]

Returned(op, err, generated) ==
    [op |-> op, err |-> err, generated |-> generated, at |-> now]

ValidateCertCall ==
    /\ cret' = Returned("ValidateCert", ValidateCert(cfs, certPath, now), FALSE)
    /\ UNCHANGED <<cfs, now, distro, ca>>

GenerateCertCall(strict) ==
    LET r == GenerateCert(cfs, now, strict) IN
    /\ cfs' = r.fs
    /\ cret' = Returned("GenerateCert", r.err, r.generated)
    /\ UNCHANGED <<now, distro, ca>>

\* GenerateCert on its generating path gets as far as os.WriteFile(certPath)
\* and then stops: os.WriteFile(keyPath) returns an error ("failed to write
\* key file"), or the process dies between the two writes
GenerateCertKeyWriteFail(strict) ==
    LET r == GenerateCert(cfs, now, strict) IN
    /\ r.generated
    /\ cfs' = [r.fs EXCEPT ![keyPath] = cfs[keyPath]]
    /\ cret' = Returned("GenerateCert", "failed to write key file", FALSE)
    /\ UNCHANGED <<now, distro, ca>>

RegenerateCertCall(strict) ==
    LET r == RegenerateCert(cfs, now, strict) IN
    /\ cfs' = r.fs
    /\ cret' = Returned("RegenerateCert", r.err, r.generated)
    /\ UNCHANGED <<now, distro, ca>>

EnsureCACall ==
    LET r == EnsureCA(cfs, now) IN
    /\ cfs' = r.fs
    /\ ca' = IF r.err = "nil" THEN "ca" ELSE "nil"
    /\ cret' = Returned("EnsureCA", r.err, FALSE)
    /\ UNCHANGED <<now, distro>>

\* where the process can die inside generateCA: after os.Create(certPath)
\* (the certificate file is there and empty or cut short), after the
\* certificate is encoded (the key file untouched), after
\* os.OpenFile(keyPath, O_CREATE|O_TRUNC) (the key file is there and empty
\* or cut short)
CrashPoints == {"cert_created", "cert_written", "key_created"}

\* EnsureCA finds no rootCA.pem, calls generateCA, and the process dies
\* inside it
GenerateCACrash(point) ==
    /\ ~Exists(cfs, rootCAPath)
    /\ cfs' = CASE point = "cert_created" ->
                    [cfs EXCEPT ![rootCAPath] = Garbage]
                [] point = "cert_written" ->
                    [cfs EXCEPT ![rootCAPath] = generateCA(cfs, now).fs[rootCAPath]]
                [] point = "key_created" ->
                    [cfs EXCEPT ![rootCAPath] = generateCA(cfs, now).fs[rootCAPath],
                                ![rootCAKeyPath] = Garbage]
    /\ ca' = "nil"
    /\ cret' = Returned("generateCA", "crash", FALSE)
    /\ UNCHANGED <<now, distro>>

InstallTrustCall(cmdOk, nssOk) ==
    /\ ca = "ca"
    /\ LET r == installTrustLinux(cfs, distro, cmdOk, nssOk) IN
       /\ cfs' = r.fs
       /\ cret' = Returned("InstallTrust", r.err, FALSE)
    /\ UNCHANGED <<now, distro, ca>>

UninstallTrustCall(debOk, rhelOk, nssOk) ==
    /\ ca = "ca"
    /\ LET r == uninstallTrustLinux(cfs, debOk, rhelOk, nssOk) IN
       /\ cfs' = r.fs
       /\ cret' = Returned("UninstallTrust", r.err, FALSE)
    /\ UNCHANGED <<now, distro, ca>>

VerifyTrustCall ==
    /\ ca = "ca"
    /\ cret' = Returned("VerifyTrust", VerifyTrust(cfs, now), FALSE)
    /\ UNCHANGED <<cfs, now, distro, ca>>

\* a year passes
Tick ==
    /\ now < MaxNow
    /\ now' = now + 1
    /\ UNCHANGED <<cfs, distro, ca, cret>>

\* what the CA directory, the certs directory and the trust store hold when
\* the first command runs
InitialRootCerts ==
    {Absent, Garbage, PemJunk,
     Certificate(1 - CAValidity, 1, <<>>, TRUE, "old")}

InitialRootKeys == {Absent, Garbage, PrivateKey("old")}

InitialLeafCerts ==
    {Absent, Garbage, PrivateKey("leaf"),
     LeafCertificate(0, LeafValidity, requiredDomains, "old"),
     LeafCertificate(0, LeafValidity, Tail(requiredDomains), "old"),
     LeafCertificate(0, LeafValidity,
                 <<"API.OPENAI.COM">> \o SubSeq(requiredDomains, 2, 4)
                     \o <<"*.localhost">>, "old"),
     LeafCertificate(1, 1 + LeafValidity,
                 <<"example.com">> \o requiredDomains, "old")}

InitCert ==
    /\ \E rootCert \in InitialRootCerts, rootKey \in InitialRootKeys,
          leaf \in InitialLeafCerts, trusted \in BOOLEAN,
          nss \in {Absent, NssDb(FALSE)} :
           cfs = [p \in CertFiles |->
                    CASE p = rootCAPath -> rootCert
                      [] p = rootCAKeyPath -> rootKey
                      [] p = certPath -> leaf
                      [] p = debPath -> IF trusted THEN rootCert ELSE Absent
                      [] p = nssDB -> nss
                      [] OTHER -> Absent]
    /\ now = 0
    /\ distro \in {"debian", "rhel", "other"}
    /\ ca = "nil"
    /\ cret = NoCall
    /\ PoolAtRest /\ HostsAtRest /\ LifeAtRest /\ ProxyAtRest
    /\ startLog = <<>>
    /\ AuxAtRest

NextCert ==
    \/ ValidateCertCall /\ UNCHANGED <<poolVars, hostsVars, lifeVars, proxyVars, startLog, auxVars>>
    \/ \E strict \in BOOLEAN :
           GenerateCertCall(strict)
               /\ UNCHANGED <<poolVars, hostsVars, lifeVars, proxyVars, startLog, auxVars>>
    \/ \E strict \in BOOLEAN :
           RegenerateCertCall(strict)
               /\ UNCHANGED <<poolVars, hostsVars, lifeVars, proxyVars, startLog, auxVars>>
    \/ EnsureCACall /\ UNCHANGED <<poolVars, hostsVars, lifeVars, proxyVars, startLog, auxVars>>
    \/ \E point \in CrashPoints :
           GenerateCACrash(point)
               /\ UNCHANGED <<poolVars, hostsVars, lifeVars, proxyVars, startLog, auxVars>>
    \/ \E cmdOk, nssOk \in BOOLEAN :
           InstallTrustCall(cmdOk, nssOk)
               /\ UNCHANGED <<poolVars, hostsVars, lifeVars, proxyVars, startLog, auxVars>>
    \/ \E debOk, rhelOk, nssOk \in BOOLEAN :
           UninstallTrustCall(debOk, rhelOk, nssOk)
               /\ UNCHANGED <<poolVars, hostsVars, lifeVars, proxyVars, startLog, auxVars>>
    \/ VerifyTrustCall /\ UNCHANGED <<poolVars, hostsVars, lifeVars, proxyVars, startLog, auxVars>>
    \/ \E strict \in BOOLEAN :
           GenerateCertKeyWriteFail(strict)
               /\ UNCHANGED <<poolVars, hostsVars, lifeVars, proxyVars, startLog, auxVars>>
    \/ Tick /\ UNCHANGED <<poolVars, hostsVars, lifeVars, proxyVars, startLog, auxVars>>

SpecCert == InitCert /\ [][NextCert]_vars

(***************************************************************************)
(* Supervisor.Run and autoRotate: one subprocess per token, restarted when *)
(* the monitor reports the limit of the current token                      *)
(***************************************************************************)
\* s.pool.Peek() == nil: no token after the current one (Pool.Peek is not
\* part of the sources at hand; autoRotate takes nil as "all exhausted")
PeekNil(i) == i + 1 >= MaxSubprocesses

\* s.startSubprocess() succeeds: exec.Command, Env with the current token,
\* s.subprocess.Start()
StartSubprocess ==
    /\ subprocess' = subprocess + 1
    /\ procs' = [procs EXCEPT ![subprocess + 1] = "running"]

\* Run: startSubprocess, go monitor.Watch, go func() { subprocessDone <-
\* s.subprocess.Wait() }(), then the select loop
RunStart ==
    /\ rpc = "start"
    /\ StartSubprocess
    /\ subprocessDone' = [pc |-> "go", cmd |-> 0]
    /\ rpc' = "select"
    /\ UNCHANGED <<done, statusChan, cur, ret, signalled>>

\* Run: startSubprocess fails and Run returns its error
RunStartFail ==
    /\ rpc = "start"
    /\ rpc' = "start_err"
    /\ UNCHANGED <<subprocess, procs, subprocessDone, done, statusChan, cur,
                   ret, signalled>>

\* the goroutine of Run is scheduled: it reads s.subprocess (unsynchronised
\* with the write in startSubprocess) and calls Wait on that Cmd
WaiterRead ==
    /\ subprocessDone.pc = "go"
    /\ subprocessDone' = [pc |-> "wait", cmd |-> subprocess]
    /\ UNCHANGED <<subprocess, procs, rpc, done, statusChan, cur, ret,
                   signalled>>

\* Wait returns once the process has exited (a second Wait on the same Cmd
\* returns then as well, with an error); the goroutine blocks in the send
WaiterReturn ==
    /\ subprocessDone.pc = "wait"
    /\ procs[subprocessDone.cmd] = "exited"
    /\ subprocessDone' = [subprocessDone EXCEPT !.pc = "send"]
    /\ UNCHANGED <<subprocess, procs, rpc, done, statusChan, cur, ret,
                   signalled>>

\* a subprocess exits: by itself, or on the SIGTERM it got
SubprocessExit(i) ==
    /\ procs[i] = "running"
    /\ procs' = [procs EXCEPT ![i] = "exited"]
    /\ UNCHANGED <<subprocess, rpc, subprocessDone, done, statusChan, cur,
                   ret, signalled>>

\* Monitor.Watch: status.ShouldRotate(threshold), statusChan <- status
MonitorSend ==
    /\ rpc \in {"select", "sigterm", "rot_wait"}
    /\ ~statusChan
    /\ statusChan' = TRUE
    /\ UNCHANGED <<subprocess, procs, rpc, subprocessDone, done, cur, ret,
                   signalled>>

\* Run: case status := <-s.statusChan; handleRotation; autoRotate's Peek
RunStatus ==
    /\ rpc = "select"
    /\ statusChan
    /\ statusChan' = FALSE
    /\ rpc' = IF PeekNil(cur) THEN "exhausted" ELSE "sigterm"
    /\ UNCHANGED <<subprocess, procs, subprocessDone, done, cur, ret,
                   signalled>>

\* autoRotate: s.subprocess.Process.Signal(syscall.SIGTERM), then
\* go func() { done <- s.subprocess.Wait() }()
AutoRotateSignal ==
    /\ rpc = "sigterm"
    /\ signalled' = signalled \cup {subprocess}
    /\ done' = [pc |-> "wait", cmd |-> subprocess]
    /\ rpc' = "rot_wait"
    /\ UNCHANGED <<subprocess, procs, subprocessDone, statusChan, cur, ret>>

\* autoRotate: case <-time.After(10 * time.Second): s.subprocess.Process.Kill()
AutoRotateKill ==
    /\ rpc = "rot_wait"
    /\ procs[subprocess] = "running"
    /\ procs' = [procs EXCEPT ![subprocess] = "exited"]
    /\ UNCHANGED <<subprocess, rpc, subprocessDone, done, statusChan, cur,
                   ret, signalled>>

\* the goroutine of autoRotate: Wait returns, it blocks in the send on done
RotateWaiterReturn ==
    /\ done.pc = "wait"
    /\ procs[done.cmd] = "exited"
    /\ done' = [done EXCEPT !.pc = "send"]
    /\ UNCHANGED <<subprocess, procs, rpc, subprocessDone, statusChan, cur,
                   ret, signalled>>

\* autoRotate: <-done, s.pool.Next(), s.startSubprocess(); back in Run the
\* monitor is started for the new token and the loop selects again
AutoRotateRestart ==
    /\ rpc = "rot_wait"
    /\ done.pc = "send"
    /\ done' = [done EXCEPT !.pc = "end"]
    /\ cur' = cur + 1
    /\ StartSubprocess
    /\ rpc' = "select"
    /\ UNCHANGED <<subprocessDone, statusChan, ret, signalled>>

\* autoRotate: startSubprocess fails, os.Exit(1)
AutoRotateRestartFail ==
    /\ rpc = "rot_wait"
    /\ done.pc = "send"
    /\ done' = [done EXCEPT !.pc = "end"]
    /\ cur' = cur + 1
    /\ rpc' = "exit1"
    /\ UNCHANGED <<subprocess, procs, subprocessDone, statusChan, ret,
                   signalled>>

\* Run: case err := <-subprocessDone: return
RunSubprocessDone ==
    /\ rpc = "select"
    /\ subprocessDone.pc = "send"
    /\ subprocessDone' = [subprocessDone EXCEPT !.pc = "end"]
    /\ ret' = subprocessDone.cmd
    /\ rpc' = "returned"
    /\ UNCHANGED <<subprocess, procs, done, statusChan, cur, signalled>>

supRest == <<poolVars, hostsVars, lifeVars, proxyVars, certVars, startLog,
             replaced, stopVars, newAdded>>

InitSup ==
    /\ PoolAtRest /\ HostsAtRest /\ LifeAtRest /\ RestAtRest

NextSup ==
    \/ RunStart /\ UNCHANGED supRest
    \/ RunStartFail /\ UNCHANGED supRest
    \/ WaiterRead /\ UNCHANGED supRest
    \/ WaiterReturn /\ UNCHANGED supRest
    \/ \E i \in 1..MaxSubprocesses : SubprocessExit(i) /\ UNCHANGED supRest
    \/ MonitorSend /\ UNCHANGED supRest
    \/ RunStatus /\ UNCHANGED supRest
    \/ AutoRotateSignal /\ UNCHANGED supRest
    \/ AutoRotateKill /\ UNCHANGED supRest
    \/ RotateWaiterReturn /\ UNCHANGED supRest
    \/ AutoRotateRestart /\ UNCHANGED supRest
    \/ AutoRotateRestartFail /\ UNCHANGED supRest
    \/ RunSubprocessDone /\ UNCHANGED supRest

SpecSup == InitSup /\ [][NextSup]_vars

(***************************************************************************)
(* Claims about the token rotation pool (checked under SpecPool)           *)
(***************************************************************************)
Registered(d) == providers[d] # NoPool

\* how many of the reads recorded in s saw index i
RECURSIVE CountIndex(_, _)
CountIndex(s, i) ==
    IF s = <<>> THEN 0
    ELSE (IF Head(s).index = i THEN 1 ELSE 0) + CountIndex(Tail(s), i)

\* C1: for a provider registered with token list T of length N, the k-th
\* GetToken since that registration returns T[(k-1) mod N] (0-based), so call
\* N+1 returns the first token again and none is skipped within a cycle.
C1_RoundRobin ==
    \A d \in Domains :
        Registered(d) =>
            LET T == providers[d].tokens
                N == Len(T)
            IN \A k \in 1..Len(served[d]) :
                   served[d][k].token = T[((k - 1) % N) + 1]

\* a provider with three distinct tokens has been asked four times and the
\* fourth call returned the first token again
C1_Witness ==
    \E d \in Domains :
        /\ Registered(d)
        /\ providers[d].tokens = <<"t1", "t2", "t3">>
        /\ Len(served[d]) = 4
        /\ served[d][4].token = "t1"
        /\ served[d][3].token = "t3"

InCritical(h) == hs[h].pc \in {"locked", "read", "unlock"}

\* C4: with handlers calling GetToken concurrently, read-and-advance is one
\* atomic step: at most one handler is between Lock and Unlock, the indexes
\* read (in lock order) are 0, 1, .., N-1, 0, .., so two reads of the same
\* index are a whole number of cycles apart, and after m reads every position
\* was handed out floor(m/N) or ceil(m/N) times.
C4_AtomicRotation ==
    /\ \A h1, h2 \in Handlers : (InCritical(h1) /\ InCritical(h2)) => h1 = h2
    /\ \A d \in Domains :
        Registered(d) =>
            LET N == Len(providers[d].tokens)
                m == Len(served[d])
            IN /\ \A i, j \in 1..m :
                      (i < j /\ served[d][i].index = served[d][j].index)
                          => (j - i) % N = 0
               /\ \A i \in 0..(N - 1) :
                      /\ CountIndex(served[d], i) >= m \div N
                      /\ CountIndex(served[d], i) <= (m + N - 1) \div N

\* one handler is blocked in Lock() while another, inside GetToken for the
\* same domain, has read a token and not yet advanced the index
C4_Witness ==
    \E h1, h2 \in Handlers :
        /\ h1 # h2
        /\ hs[h1].pc = "read"
        /\ hs[h2].pc = "wait"
        /\ hs[h1].domain = hs[h2].domain
        /\ Len(providers[hs[h1].domain].tokens) >= 2
        /\ Len(served[hs[h1].domain]) >= 3

(***************************************************************************)
(* Claims about the hosts file                                             *)
(***************************************************************************)
tmpFile == fs[TmpPath]

MarkerFree(f) ==
    ~Contains(f, ddollarMarkerStart) /\ ~Contains(f, ddollarMarkerEnd)

\* C5: a crash at any point of Add or Remove leaves the live hosts file
\* equal to its complete content before the call or to its complete content
\* after it; it is never seen partially written.
C5_CrashLeavesOldOrNew ==
    \A w \in Writers :
        /\ wpc[w] \in AddPcs \cup {"crashed_add"}
              => hostsFile \in {pre, AddContent(pre)}
        /\ wpc[w] \in RemovePcs \cup {"crashed_remove"}
              => hostsFile \in {pre, RemoveContent(pre)}

\* Add was killed inside os.WriteFile(tmpPath): the temp file is left
\* truncated, the live file is whole
C5_Witness ==
    /\ wpc["cli"] = "crashed_add"
    /\ tmpFile = <<>>
    /\ Len(pre) > 0
    /\ hostsFile = pre

\* no hosts call is under way: lastOp and pre describe the last call
AtRest == \A w \in Writers : wpc[w] = "idle"

\* C6: after a sequence of calls that contains a successful Add, a
\* successful Restore leaves the hosts file equal to the content it had just
\* before the block was inserted (so without a marker block), and no backup.
C6_RestoreReproducesPreAdd ==
    (AtRest /\ lastOp = "Restore:ok" /\ preAdd # NoFile)
        => /\ hostsFile = preAdd
           /\ ~Contains(hostsFile, ddollarMarkerStart)
           /\ backupFile = NoFile

\* how many times symbol c occurs in f
RECURSIVE Count(_, _)
Count(f, c) ==
    IF f = <<>> THEN 0
    ELSE (IF Head(f) = c THEN 1 ELSE 0) + Count(Tail(f), c)

\* C7: a single writer starting from a marker-free hosts file never produces
\* a second block: Add succeeds only on a file without a start marker, and an
\* Add on a file with one fails ("already exist") and leaves it unchanged.
C7_AtMostOneBlock ==
    MarkerFree(init0) =>
        /\ Count(hostsFile, ddollarMarkerStart) <= 1
        /\ Count(hostsFile, ddollarMarkerEnd) <= 1
        /\ (AtRest /\ lastOp = "Add:ok") => ~Contains(pre, ddollarMarkerStart)
        /\ (AtRest /\ lastOp = "Add:exists") =>
               (Contains(pre, ddollarMarkerStart) /\ hostsFile = pre)

\* a second Add was refused and the file still holds the one block
C7_Witness ==
    /\ AtRest
    /\ MarkerFree(init0)
    /\ lastOp = "Add:exists"
    /\ hostsFile = AddContent(preAdd)
    /\ Count(hostsFile, ddollarMarkerStart) = 1

\* The lines of a text file, by the positions of its line feeds: line k ends
\* before the k-th LF; what follows the last LF is a line when not empty.
LFPositions(f) == { i \in 1..Len(f) : f[i] = LF }

KthLF(f, k) ==
    CHOOSE i \in LFPositions(f) :
        Cardinality({ j \in LFPositions(f) : j <= i }) = k

NumLines(f) ==
    Cardinality(LFPositions(f))
        + (IF Len(f) > 0 /\ f[Len(f)] # LF THEN 1 ELSE 0)

TextLines(f) ==
    [k \in 1..NumLines(f) |->
        SubSeq(f,
               IF k = 1 THEN 1 ELSE KthLF(f, k - 1) + 1,
               IF k <= Cardinality(LFPositions(f))
               THEN KthLF(f, k) - 1 ELSE Len(f))]

\* line i of L lies in a marker-delimited block: a line with the start marker
\* at or before it opened a block that no end-marker line has closed before i
\* (the markers' own lines belong to the block)
ClosesBlock(line) ==
    Contains(line, ddollarMarkerEnd) /\ ~Contains(line, ddollarMarkerStart)

InBlock(L, i) ==
    \E st \in 1..i :
        /\ Contains(L[st], ddollarMarkerStart)
        /\ \A e \in (st + 1)..(i - 1) : ~ClosesBlock(L[e])

\* the lines of L whose index is in K, in order
RECURSIVE Pick(_, _, _)
Pick(L, K, i) ==
    IF i > Len(L) THEN <<>>
    ELSE (IF i \in K THEN <<L[i]>> ELSE <<>>) \o Pick(L, K, i + 1)

OutsideLines(f) ==
    LET L == TextLines(f)
    IN Pick(L, { i \in 1..Len(L) : ~InBlock(L, i) }, 1)

WithoutTrailingCR(line) ==
    IF Len(line) > 0 /\ line[Len(line)] = CR
    THEN [k \in 1..(Len(line) - 1) |-> line[k]]
    ELSE line

\* the input lines outside the block that hold no marker themselves, each
\* without the CR of a CRLF line end
UnmanagedLines(f) ==
    LET L == TextLines(f)
        K == { i \in 1..Len(L) :
                 ~InBlock(L, i) /\ ~Contains(L[i], ddollarMarkerEnd) }
        P == Pick(L, K, 1)
    IN [k \in 1..Len(P) |-> WithoutTrailingCR(P[k])]

\* each line followed by LF
RECURSIVE Terminated(_)
Terminated(L) ==
    IF L = <<>> THEN <<>>
    ELSE Head(L) \o <<LF>> \o Terminated(Tail(L))

RemovedRightAfterAdd ==
    /\ AtRest
    /\ lastOp = "Remove:ok"
    /\ preAdd # NoFile
    /\ pre = AddContent(preAdd)

\* C9 as stated: for every marker-free F, Add then Remove leaves exactly F.
C9_AddRemoveRestoresAnyFile ==
    (RemovedRightAfterAdd /\ MarkerFree(preAdd)) => hostsFile = preAdd

\* F is not empty, ends with LF and has no CR right before an LF
NewlineTerminatedLF(f) ==
    /\ Len(f) > 0
    /\ f[Len(f)] = LF
    /\ \A i \in 1..(Len(f) - 1) : ~(f[i] = CR /\ f[i + 1] = LF)

\* C9 as amended: for every marker-free F that is not empty, ends with a
\* newline and has no carriage return before a newline, Add then Remove
\* leaves the hosts file byte for byte equal to F.
C9_AddRemoveRestoresFile ==
    (RemovedRightAfterAdd /\ MarkerFree(preAdd) /\ NewlineTerminatedLF(preAdd))
        => hostsFile = preAdd

C9_Witness ==
    /\ RemovedRightAfterAdd
    /\ preAdd = <<"a", LF, LF>>
    /\ hostsFile = preAdd

\* C10: IsActive right after a successful Add returns true, right after a
\* successful Remove returns false, whatever the file was at the start; and
\* what it returns is whether the start marker is in the hosts file.
C10_IsActiveFollowsBlock ==
    AtRest =>
        /\ (lastOp = "Add:ok" /\ active # "unknown") => active = "true"
        /\ (lastOp = "Remove:ok" /\ active # "unknown") => active = "false"
        /\ active = "true" => Contains(hostsFile, ddollarMarkerStart)
        /\ active = "false" => ~Contains(hostsFile, ddollarMarkerStart)

\* IsActive returned false after a Remove that took a block out of a file
\* that had markers of its own at the start
C10_Witness ==
    /\ AtRest
    /\ lastOp = "Remove:ok"
    /\ active = "false"
    /\ Contains(pre, ddollarMarkerStart)
    /\ Contains(init0, ddollarMarkerEnd)

(***************************************************************************)
(* Claims about `ddollar start` (checked under SpecLife and FairLife)      *)
(***************************************************************************)
BlockPresent == Contains(hostsFile, ddollarMarkerStart)

\* the main process ended without its shutdown handler, after its Add
KilledAfterAdd == proc = "killed" /\ addDone

\* C2: if the main process terminates without running its shutdown handler
\* (SIGKILL) at any point after Add() inserted the block, the block is
\* eventually absent from the hosts file (the watchdog removes it).
C2_KilledBlockEventuallyRemoved == KilledAfterAdd ~> ~BlockPresent

\* the signal goroutine has taken the signal / has finished its Remove()
HandlerStarted == spc \in {"stop", "shutdown_wait", "call_remove",
                           "in_remove", "exit0", "exited"}
HandlerRemoveStarted == spc \in {"in_remove", "exit0", "exited"}
HandlerRemoveDone == spc \in {"exit0", "exited"}

\* C3: on SIGINT/SIGTERM the handler stops the listener, then calls
\* Remove(), then exits: Remove() is not started before the stop has
\* returned, and the process never exits before Remove() has completed.
C3_ShutdownOrder ==
    /\ HandlerRemoveStarted => stopReturned
    /\ (proc = "exited" /\ HandlerStarted) => HandlerRemoveDone

(***************************************************************************)
(* Restore without a backup                                                *)
(***************************************************************************)
\* C11: Restore() called when no backup file exists returns the "backup
\* does not exist" error and leaves the hosts file unchanged; so a Restore()
\* called directly after a successful Restore() fails this way.
C11_RestoreWithoutBackup ==
    /\ [](  (AtRest /\ lastOp = "Restore:nobackup")
              => (hostsFile = pre /\ backupFile = NoFile))
    /\ [][ (AtRest /\ lastOp = "Restore:ok" /\ RestoreRead("cli"))
              => (lastOp' = "Restore:nobackup" /\ fs' = fs /\ wpc' = wpc) ]_vars

\* a Restore was refused although an Add had made a backup: an earlier
\* Restore has deleted it
C11_Witness ==
    /\ AtRest
    /\ lastOp = "Restore:nobackup"
    /\ preAdd # NoFile
    /\ backupFile = NoFile
    /\ hostsFile = preAdd

(***************************************************************************)
(* Claims about handleRequest (checked under SpecProxy)                    *)
(***************************************************************************)
\* the handler takes a step of the request it is serving
HandlerStep == hs'[ProxyHandler] # hs[ProxyHandler]

\* the step in which GetToken returns and handleRequest answers
RespondStep ==
    hs[ProxyHandler].pc = "unlock" /\ hs'[ProxyHandler].pc = "idle"

\* C12: when GetToken fails for the request's Host (no provider registered
\* for that domain), the proxy answers 503 Service Unavailable, sends no
\* request upstream, and leaves every provider's rotation index unchanged.
C12_NoProviderAnswers503 ==
    /\ [](status = "503 Service Unavailable" => upstream = NoRequest)
    /\ [][ (RespondStep /\ providers[inbound.Host] = NoPool)
             => /\ status' = "503 Service Unavailable"
                /\ upstream' = NoRequest ]_vars
    /\ [][ (HandlerStep /\ providers[inbound'.Host] = NoPool)
             => providers' = providers ]_vars

\* a request for an unregistered domain was answered 503 while the other
\* provider, registered, stands in the middle of its rotation
C12_Witness ==
    /\ status = "503 Service Unavailable"
    /\ upstream = NoRequest
    /\ providers[inbound.Host] = NoPool
    /\ \E d \in Domains : providers[d] # NoPool /\ providers[d].index = 1

\* the header keys that carry credentials
AuthKeys == {"Authorization", "X-Api-Key", "X-Goog-Api-Key"}

\* the provider configured for a domain
ProviderFor(d) == CHOOSE p \in SupportedProviders : p.Domain = d

\* the key the provider's AuthHeader is stored under
AuthKeyOf(p) ==
    IF p.AuthHeader = "Authorization" THEN "Authorization"
    ELSE IF p.AuthHeader = "x-api-key" THEN "X-Api-Key"
    ELSE "X-Goog-Api-Key"

\* C13: the authorization headers of every forwarded request are
\* independent of what the client sent: client-supplied Authorization,
\* x-api-key and x-goog-api-key values are removed and the provider's auth
\* header is exactly AuthPrefix + the token GetToken returned for the request.
C13_UpstreamAuthIsInjectedToken ==
    [][ (RespondStep /\ ~hs[ProxyHandler].err) =>
          LET p == ProviderFor(inbound.Host)
              t == hs[ProxyHandler].token
          IN /\ status' = "upstream"
             /\ upstream'.Header[AuthKeyOf(p)] = <<p.AuthPrefix \o t>>
             /\ \A k \in AuthKeys \ {AuthKeyOf(p)} :
                    upstream'.Header[k] = <<>> ]_vars

\* C14: the upstream request has the same method, the same path and the
\* same query as the inbound request (neither duplicated nor rewritten), its
\* scheme is https and its host is the request's domain.
C14_UpstreamKeepsMethodPathQuery ==
    status = "upstream" =>
        /\ upstream.Method = inbound.Method
        /\ upstream.Path = inbound.Path
        /\ upstream.RawQuery = inbound.RawQuery
        /\ upstream.Scheme = "https"
        /\ upstream.URLHost = inbound.Host
        /\ upstream.Host = inbound.Host

\* C16: AddProvider called with an empty token list returns an error and
\* changes nothing: the registered domains, their token lists and their
\* indexes are what they were before the call.
C16_EmptyAddProviderChangesNothing ==
    [][ \A p \in SupportedProviders :
            AddProvider(p, <<>>) =>
                /\ addErr' # "nil"
                /\ providers' = providers
                /\ served' = served ]_vars

\* AddProvider has returned its error while one provider is registered and
\* in mid-rotation and the other is not registered
C16_Witness ==
    /\ addErr = "no tokens provided"
    /\ \E d \in Domains :
           /\ providers[d] # NoPool
           /\ providers[d].index = 1
           /\ Len(providers[d].tokens) = 2
    /\ \E d \in Domains : providers[d] = NoPool

\* the domain the GetToken call of handler h is for, over one step
CallDomain(h) == IF hs[h].pc = "idle" THEN hs'[h].domain ELSE hs[h].domain

\* C17: GetToken(d) never changes the state of a provider other than d: for
\* an unregistered domain it returns the 'no tokens' error and changes
\* nothing; for a registered domain only d's index advances (by one, modulo
\* the number of d's tokens), so interleaved calls for two domains each
\* follow their own round-robin sequence.
C17_GetTokenTouchesOnlyItsProvider ==
    [][ \A h \in Handlers :
          (hs'[h] # hs[h]) =>
            LET d == CallDomain(h)
            IN /\ \A e \in Domains \ {d} :
                      providers'[e] = providers[e] /\ served'[e] = served[e]
               /\ providers[d] = NoPool =>
                      /\ providers' = providers
                      /\ served' = served
                      /\ hs[h].pc = "locked" => hs'[h].err
               /\ providers[d] # NoPool =>
                      /\ providers'[d].tokens = providers[d].tokens
                      /\ providers'[d].provider = providers[d].provider
                      /\ ~hs'[h].err
                      /\ providers'[d].index =
                            IF hs[h].pc = "read"
                            THEN (providers[d].index + 1)
                                     % Len(providers[d].tokens)
                            ELSE providers[d].index ]_vars

\* two handlers are inside GetToken for different domains, both registered,
\* the two rotations standing at different positions
C17_Witness ==
    \E h1, h2 \in Handlers :
        /\ hs[h1].pc = "unlock" /\ ~hs[h1].err
        /\ hs[h2].pc = "wait"
        /\ hs[h1].domain # hs[h2].domain
        /\ providers[hs[h2].domain] # NoPool
        /\ Len(providers[hs[h1].domain].tokens) = 3
        /\ providers[hs[h1].domain].index = 2
        /\ providers[hs[h2].domain].index = 1
        /\ Len(served[hs[h1].domain]) = 2
        /\ Len(served[hs[h2].domain]) = 3

(***************************************************************************)
(* Claims about the CA, the leaf certificate and the trust store (checked  *)
(* under SpecCert)                                                         *)
(***************************************************************************)
\* the CA certificate is in the platform trust store
InTrustStore == cfs[debPath] # Absent \/ cfs[rhelPath] # Absent

\* C15: VerifyTrust(ca) succeeds only if the CA is currently present in the
\* platform trust store; in particular it returns an error after a
\* successful UninstallTrust(ca) with no reinstall.
C15_VerifyTrustOnlyIfInTrustStore ==
    (cret.op = "VerifyTrust" /\ cret.err = "nil") => InTrustStore

\* the four provider domains and localhost
RequiredDomainSet ==
    {"api.openai.com", "api.anthropic.com", "api.cohere.ai",
     "generativelanguage.googleapis.com", "localhost"}

\* the SAN list of a certificate, as a set
SANs(c) == { c.DNSNames[i] : i \in 1..Len(c.DNSNames) }

C19_GeneratedCertValidates ==
    /\ []( (cret.op = "GenerateCert" /\ cret.generated /\ cret.at = now) =>
              /\ cret.err = "nil"
              /\ cfs[certPath].kind = "cert"
              /\ RequiredDomainSet \subseteq SANs(cfs[certPath]) )
    /\ [][ (cret.op = "GenerateCert" /\ cret.generated /\ cret.at = now
              /\ ValidateCertCall) => cret'.err = "nil" ]_vars

\* GenerateCert has replaced a certificate that lacked a required domain
\* by a new one, a year after the start
C19_Witness ==
    /\ cret.op = "GenerateCert" /\ cret.generated /\ cret.at = now
    /\ now = 1
    /\ cfs[certPath].kind = "cert"
    /\ cfs[certPath].NotBefore = 1
    /\ Len(cfs[certPath].DNSNames) = 5
    /\ cfs[rootCAPath].Key = "old"

\* root certificate and key are both present and parseable
CAPresentAndParseable ==
    cfs[rootCAPath].kind = "cert" /\ cfs[rootCAKeyPath].kind = "key"

\* C20: EnsureCA returns the existing CA when root certificate and key are
\* both present and parseable, and in every other state of the CA directory
\* (files absent, certificate unparseable, key missing) it generates and
\* persists a new certificate/key pair instead of failing.
C20_EnsureCALoadsOrGenerates ==
    [][ EnsureCACall =>
          /\ cret'.err = "nil"
          /\ IF CAPresentAndParseable
             THEN cfs' = cfs
             ELSE /\ cfs'[rootCAPath].kind = "cert"
                  /\ cfs'[rootCAPath].NotBefore = now
                  /\ cfs'[rootCAKeyPath].kind = "key"
                  /\ cfs'[rootCAKeyPath].Key = cfs'[rootCAPath].Key ]_vars

\* C21: the result of InstallTrust is determined solely by the system
\* trust store installation: a missing NSS database or a failing NSS import
\* never turns a successful system-store installation into an error.
C21_InstallTrustIgnoresNSS ==
    [][ \A cmdOk, nssOk \in BOOLEAN :
            InstallTrustCall(cmdOk, nssOk) =>
                ( cret'.err = "nil" <=> (Exists(cfs, rootCAPath) /\ cmdOk) ) ]_vars

\* InstallTrust has returned no error, the CA is in the system store, and
\* the NSS database that is there has not taken it
C21_Witness ==
    /\ cret.op = "InstallTrust" /\ cret.err = "nil"
    /\ InTrustStore
    /\ cfs[nssDB] = NssDb(FALSE)

(***************************************************************************)
(* Claims about the start sequence (checked under SpecLife)                *)
(***************************************************************************)
IsPrefix(a, b) == Len(a) <= Len(b) /\ a = SubSeq(b, 1, Len(a))

\* InstallTrust returned an error in this run
TrustFailed == Len(startLog) >= 1 /\ startLog[1] = "InstallTrust:error"

\* what startCommand has attempted after the trust warning
StagesAfterTrust == SubSeq(startLog, 3, Len(startLog))

\* the stages in the order claimed; Add is not called when the block is
\* already in the hosts file
AllStages ==
    <<"GenerateCert", "watchdog.Start", "hosts.Add", "server.Start">>
StagesBlockPresent == <<"GenerateCert", "watchdog.Start", "server.Start">>

\* C22 as stated: if InstallTrust fails during start, startup is not
\* aborted: leaf certificate generation, watchdog spawn, host redirection and
\* the proxy listener are all still attempted, in that order, and manual
\* trust instructions are emitted; no run in which InstallTrust failed ends
\* before all of them were attempted.
C22_TrustFailureAllStagesAttempted ==
    (TrustFailed /\ proc = "exited") =>
        /\ startLog[2] = "PrintManualInstructions"
        /\ StagesAfterTrust \in {AllStages, StagesBlockPresent}

\* C22, amended: if InstallTrust fails during start, manual trust
\* instructions are emitted and startup goes on to leaf certificate
\* generation; the stages are attempted in the order GenerateCert, watchdog
\* spawn, host redirection, server.Start, and a run ends before server.Start was
\* called only through the exit of a later stage's own error (GenerateCert,
\* Add) or through the signal handler.
C22_TrustFailureDoesNotAbort ==
    /\ []( TrustFailed =>
             /\ startLog[2] = "PrintManualInstructions"
             /\ \/ IsPrefix(StagesAfterTrust, AllStages)
                \/ IsPrefix(StagesAfterTrust, StagesBlockPresent) )
    /\ []( (TrustFailed /\ proc = "exited"
              /\ StagesAfterTrust \notin {AllStages, StagesBlockPresent}) =>
             \/ /\ mpc = "exit1"
                /\ startLog[Len(startLog)] \in {"GenerateCert", "hosts.Add"}
             \/ spc = "exited" )
    /\ [][ (~TrustFailed /\ TrustFailed') =>
              (proc' = "running" /\ mpc' = "generate_cert") ]_vars

\* InstallTrust failed and the proxy is listening, every stage attempted
C22_Witness ==
    /\ TrustFailed
    /\ StagesAfterTrust = AllStages
    /\ mpc = "serving" /\ listener = "open"
    /\ wd = "running" /\ addDone

\* hosts.Add() was the last thing startCommand called
AddWasLastCall ==
    Len(startLog) >= 1 /\ startLog[Len(startLog)] = "hosts.Add"

\* C23: if Add() fails during start (hosts file unreadable or unwritable),
\* the process exits with failure, and the proxy listener is never started in
\* that run: the step in which Add returns its error ends the process with
\* exit status 1 before server.Start was called, and nothing is called after.
C23_AddFailureExitsBeforeListener ==
    /\ [][ (lastOp # "Add:error" /\ lastOp' = "Add:error") =>
              /\ proc' = "exited" /\ mpc' = "exit1"
              /\ AddWasLastCall'
              /\ listener' = "none" ]_vars
    /\ []( (mpc = "exit1" /\ AddWasLastCall) =>
              (proc = "exited" /\ listener = "none") )
    /\ [][ (mpc = "exit1" /\ AddWasLastCall) =>
              (mpc' = "exit1" /\ startLog' = startLog) ]_vars

\* Add() has failed on an unwritable hosts file and the process is gone
C23_Witness ==
    /\ lastOp = "Add:error"
    /\ AddWasLastCall
    /\ proc = "exited" /\ mpc = "exit1"
    /\ listener = "none"
    /\ ~IsActive(hostsFile)

\* C24: after any sequence of AddProvider and GetToken calls, every
\* registered provider has a non-empty token list and an index in
\* [0, len(tokens)).
C24_IndexInRange ==
    \A d \in Domains :
        Registered(d) =>
            /\ Len(providers[d].tokens) > 0
            /\ providers[d].index \in 0..(Len(providers[d].tokens) - 1)

\* a provider with three tokens has been read three times and its index has
\* wrapped to 0; an AddProvider with no tokens has been refused meanwhile
C24_Witness ==
    \E d \in Domains :
        /\ Registered(d)
        /\ Len(providers[d].tokens) = 3
        /\ Len(served[d]) = 3
        /\ providers[d].index = 0
        /\ addErr # "nil"

\* C25: the watchdog invokes Remove() only after the parent has actually
\* terminated: while the parent is alive, on every platform (with or without
\* /proc), no watchdog tick starts the cleanup.
C25_WatchdogWaitsForParentDeath ==
    (wd \in {"cleanup", "exited"}) => proc # "running"

Called(stage) == \E i \in 1..Len(startLog) : startLog[i] = stage

\* C26: in the start sequence hosts.Add() is invoked only after a watchdog
\* process has been spawned successfully, so a block inserted by this process
\* never exists without a live watchdog.
C26_AddOnlyWithLiveWatchdog ==
    /\ Called("hosts.Add") => wd \notin {"none", "failed"}
    /\ (addDone /\ IsActive(hostsFile)) => wd \in {"running", "cleanup"}

(***************************************************************************)
(* More claims about the hosts file (checked under SpecHosts)              *)
(***************************************************************************)
\* C27: Remove() is idempotent and a no-op on an already clean file: for
\* every file F, Remove applied to the output of a Remove changes nothing
\* more, and a Remove that ran on a newline-terminated file without a marker
\* has left it byte for byte unchanged.
C27_RemoveIdempotentAndNoOpWhenClean ==
    (AtRest /\ lastOp = "Remove:ok") =>
        /\ RemoveContent(hostsFile) = hostsFile
        /\ (MarkerFree(pre) /\ HasSuffixLF(pre)) => hostsFile = pre

(***************************************************************************)
(* Claims about the watchdog (checked under SpecLife)                      *)
(***************************************************************************)
\* C28: after detecting the parent's death the watchdog calls Remove()
\* exactly once and then exits: its Remove starts only in the tick that
\* detects the death, the return of that Remove ends the watchdog whether it
\* succeeded or failed, an exited watchdog never probes or removes again,
\* and no step of the watchdog touches the CA, certificate or trust store
\* files.
C28_WatchdogRemovesOnceThenExits ==
    /\ [][ (wpc["wd"] = "idle" /\ wpc'["wd"] # "idle") =>
              (wd = "running" /\ wd' = "cleanup" /\ ParentGone) ]_vars
    /\ [][ (wpc["wd"] # "idle" /\ wpc'["wd"] = "idle") =>
              (wd = "cleanup" /\ wd' = "exited") ]_vars
    /\ [][ (wd = "cleanup") => (wd' \in {"cleanup", "exited"}) ]_vars
    /\ [][ (wd = "exited") => (wd' = "exited" /\ wpc'["wd"] = "idle") ]_vars
    /\ [][ (wd' # wd \/ wpc'["wd"] # wpc["wd"]) =>
              (cfs' = cfs /\ ca' = ca /\ cret' = cret) ]_vars

\* the watchdog's Remove has failed (its temporary file was renamed away by
\* a concurrent Add or Remove) and the watchdog has exited all the same
C28_Witness ==
    /\ wd = "exited"
    /\ wpc["wd"] = "idle"
    /\ lastOp = "Remove:error"
    /\ spc # "in_remove"
    /\ mpc # "err_remove"

(***************************************************************************)
(* Claims about where forwarded requests go (checked under SpecRoute)      *)
(***************************************************************************)
\* C29: while the block is active, every forwarded request for a managed
\* domain is delivered to the real upstream (the address of its host in DNS)
\* and never re-enters the proxy's own listener, and one client request
\* consumes exactly one token (it enters handleRequest once).
C29_ForwardedReachesRealUpstream ==
    (IsActive(hostsFile) /\ upstream # NoRequest) =>
        /\ route.addr = "dns:" \o upstream.URLHost
        /\ route.addr # LoopbackAddr
        /\ route.hops = 1

(***************************************************************************)
(* More claims about the certificates (checked under SpecCert)             *)
(***************************************************************************)
\* C30: GenerateCert never returns a leaf certificate whose issuer differs
\* from the active CA: whenever GenerateCert returns without error while the
\* CA certificate file holds a certificate, the leaf in cert.pem was issued
\* by that CA (a leaf issued by a replaced CA fails validation and is
\* regenerated).
C30_LeafIssuedByActiveCA ==
    [][ \A strict \in BOOLEAN :
            ( /\ GenerateCertCall(strict)
              /\ cret'.err = "nil"
              /\ ParsesAsCertificate(cfs'[rootCAPath]) ) =>
                cfs'[certPath].Issuer = cfs'[rootCAPath].Key ]_vars

\* the leaf certificate file holds a certificate that is within its
\* validity period and lists every required domain
LeafValid ==
    /\ cfs[certPath].kind = "cert"
    /\ cfs[certPath].NotBefore <= now /\ now <= cfs[certPath].NotAfter
    /\ RequiredDomainSet \subseteq SANs(cfs[certPath])

\* C31: if the leaf certificate exists and passes ValidateCert, GenerateCert
\* returns the existing paths and writes nothing (certificate file, key file
\* and CA unchanged); only when the certificate is absent or invalid does it
\* call EnsureCA and, on success, write a new certificate and key.
C31_GenerateCertReusesValidLeaf ==
    [][ \A strict \in BOOLEAN :
            GenerateCertCall(strict) =>
                IF LeafValid
                THEN /\ cfs' = cfs
                     /\ cret'.err = "nil" /\ ~cret'.generated
                ELSE cret'.err = "nil" =>
                        /\ cret'.generated
                        /\ cfs'[certPath].kind = "cert"
                        /\ cfs'[certPath].NotBefore = now
                        /\ cfs'[keyPath].kind = "key"
                        /\ cfs'[rootCAPath].kind = "cert" ]_vars

\* GenerateCert has returned a valid leaf that was there, with no CA on disk
\* before or after
C31_Witness ==
    /\ cret.op = "GenerateCert" /\ cret.err = "nil" /\ ~cret.generated
    /\ cret.at = now
    /\ LeafValid
    /\ cfs[rootCAPath] = Absent /\ cfs[rootCAKeyPath] = Absent
    /\ cfs[keyPath] = Absent

\* C32: after a crash at any point inside CA generation, a later EnsureCA
\* never returns as valid a CA whose certificate and private key were not
\* both completely written: the EnsureCA that follows the crash reports an
\* error or leaves a complete pair (a certificate and the key it was made
\* with).
C32_NoHalfWrittenCA ==
    [][ ( /\ cret.op = "generateCA" /\ cret.err = "crash"
          /\ EnsureCACall
          /\ cret'.err = "nil" ) =>
            /\ cfs'[rootCAPath].kind = "cert"
            /\ cfs'[rootCAKeyPath].kind = "key"
            /\ cfs'[rootCAKeyPath].Key = cfs'[rootCAPath].Key ]_vars

\* the CA directory holds a certificate and the key it was made with
CAComplete ==
    /\ cfs[rootCAPath].kind = "cert"
    /\ cfs[rootCAKeyPath].kind = "key"
    /\ cfs[rootCAKeyPath].Key = cfs[rootCAPath].Key

\* C33: once EnsureCA has created a CA, every later EnsureCA call returns
\* that same CA (same certificate, so same fingerprint) without rewriting the
\* CA files, and no operation of the program (EnsureCA, GenerateCert,
\* RegenerateCert, InstallTrust, UninstallTrust, VerifyTrust, ValidateCert)
\* deletes or regenerates it.
C33_CAStableOnceCreated ==
    [][ CAComplete =>
          /\ cfs'[rootCAPath] = cfs[rootCAPath]
          /\ cfs'[rootCAKeyPath] = cfs[rootCAKeyPath]
          /\ EnsureCACall => (cret'.err = "nil" /\ ca' = "ca") ]_vars

\* a CA created by EnsureCA at the start is returned by an EnsureCA a year
\* or more later, after the leaf was regenerated and the trust uninstalled
C33_Witness ==
    /\ cret.op = "EnsureCA" /\ cret.err = "nil" /\ cret.at = now
    /\ now >= 1
    /\ CAComplete
    /\ cfs[rootCAPath].Key = "new" /\ cfs[rootCAPath].NotBefore = 0
    /\ cfs[certPath].kind = "cert" /\ cfs[certPath].NotBefore = now
    /\ ~InTrustStore

\* C34: UninstallTrust attempts the removal from each store kind
\* independently: when the removal from the system store fails, the removal
\* from the NSS store is attempted all the same, so an NSS database that
\* holds the CA and whose certutil works no longer holds it afterwards.
C34_UninstallTriesEveryStore ==
    [][ \A debOk, rhelOk \in BOOLEAN :
            ( /\ UninstallTrustCall(debOk, rhelOk, TRUE)
              /\ cret'.err # "nil"
              /\ cfs[nssDB] = NssDb(TRUE) ) =>
                cfs'[nssDB] = NssDb(FALSE) ]_vars

\* C35: AddProvider with a non-empty list for a domain that is already
\* registered replaces that domain's token list and puts its index at 0,
\* leaves ProviderCount and every other domain's list and index as they
\* were, and the first GetToken served for the domain afterwards is the
\* first token of the new list.
C35_ReRegistrationReplacesList ==
    /\ [][ \A p \in SupportedProviders, t \in TokenLists :
              ( /\ AddProvider(p, t)
                /\ Len(t) > 0
                /\ Registered(p.Domain) ) =>
                  /\ providers'[p.Domain].tokens = t
                  /\ providers'[p.Domain].index = 0
                  /\ \A e \in Domains \ {p.Domain} :
                         providers'[e] = providers[e]
                  /\ ProviderCount(providers') = ProviderCount(providers) ]_vars
    /\ [](\A d \in Domains :
            (Registered(d) /\ Len(served[d]) > 0) =>
                served[d][1] = [index |-> 0, token |-> providers[d].tokens[1]])

\* a domain's list was overwritten by a longer list while the other domain
\* stood in mid-rotation, and the next GetToken for the overwritten domain
\* has been served
C35_Witness ==
    \E d \in Domains :
        /\ replaced = d
        /\ Len(providers[d].tokens) = 3
        /\ Len(served[d]) = 1
        /\ served[d][1].token = providers[d].tokens[1]
        /\ \E e \in Domains \ {d} :
               /\ Registered(e)
               /\ providers[e].index = 1

\* C36: Server.Stop closes the listener, so that no connection is accepted
\* after it was called, and it returns: at the latest when the grace period
\* of its context has run out, also when a request in flight never
\* finishes. Called while httpServer is nil (no listener was started) it
\* returns at once and changes nothing.
C36_StopClosesListenerAndReturns ==
    /\ [](shutdownCalled => listener # "open")
    /\ [][shutdownCalled => inflight' <= inflight]_vars
    /\ [][(SigStop /\ httpServer = "nil") =>
              /\ stopReturned'
              /\ UNCHANGED <<httpServer, listener, shutdownCalled, inflight,
                             mpc>>]_vars
    /\ [][(spc = "shutdown_wait" /\ grace = ShutdownGrace /\ Running') =>
              spc' # "shutdown_wait" \/ ENABLED SigShutdownReturn]_vars
    /\ (spc = "shutdown_wait") ~> (stopReturned \/ ~Running)

\* Stop has returned although the request that was in flight when it was
\* called has not finished: the whole grace period has passed
C36_Witness ==
    /\ stopReturned
    /\ shutdownCalled
    /\ listener = "closed"
    /\ inflight = 1
    /\ grace = ShutdownGrace
    /\ Running

\* C37: after an automatic rotation Run supervises the restarted
\* subprocess: when Run returns, the Wait result it returns on is that of
\* the subprocess started last, and that subprocess has exited.
C37_RunReturnsOnCurrentSubprocess ==
    (rpc = "returned" /\ cur > 0) =>
        /\ ret = subprocess
        /\ procs[subprocess] = "exited"

\* C38: an instance whose start found the block already in the hosts file
\* (and so skipped Add) never removes that block: with no shutdown signal
\* handled, neither its cleanup after a failed server start nor its
\* watchdog after its exit takes the block out of the file (on a platform
\* with /proc, where the watchdog waits for the exit).
C38_SkippedAddNeverRemoves ==
    ( /\ IsActive(init0)
      /\ Called("server.Start") /\ ~Called("hosts.Add")
      /\ procfs
      /\ spc \in {"none", "waiting"} ) =>
        IsActive(hostsFile)

\* C39: the watchdog of an instance that is gone never takes out the block
\* a later instance has inserted, and never disturbs that instance's Add on
\* the shared temporary file: once the later instance's Add() has returned
\* nil, the hosts file holds the complete block.
C39_OldWatchdogSparesNewBlock ==
    newAdded =>
        /\ BlockPresent
        /\ \A i \in 1..Len(Providers) :
               Contains(hostsFile, "127.0.0.1 " \o Providers[i])

\* C40: whenever GenerateCert (or RegenerateCert through it) has returned
\* success, cert.pem and key.pem both exist and are a pair: a certificate
\* and the private key it was issued for.
C40_SuccessMeansMatchingPair ==
    ( /\ cret.op \in {"GenerateCert", "RegenerateCert"}
      /\ cret.err = "nil"
      /\ cret.at = now ) =>
        /\ cfs[certPath].kind = "cert"
        /\ cfs[keyPath].kind = "key"
        /\ cfs[keyPath].Key = cfs[certPath].Key
====
